---- MODULE Spec2Model ----
(***************************************************************************)
(* SonarResolve: the issue / merge-request tracking store                  *)
(* (sonar_tools/utils/project_db.py, class ProjectStatusDB), the decision  *)
(* logic on top of it (sonar_tools/service/sonar_service.py, class         *)
(* SonarService) and the remediation loop that consults it                 *)
(* (sonar_tools/ai/ai_code_fixer.py, class AICodeFixer).                   *)
(*                                                                         *)
(* Every ProjectStatusDB method runs under self.lock and in one sqlite     *)
(* transaction, so a method is one atomic step on the tables.  A method is *)
(* written as an operator from the tables (a record db) to the tables it   *)
(* leaves and the value it returns; the actions apply these operators to   *)
(* the state variables.                                                    *)
(***************************************************************************)
EXTENDS Integers, Sequences, FiniteSets, TLC

VARIABLES
    sonar_issue,                 \* rows of table sonar_issue
    mr_records,                  \* rows of table mr_records
    mr_seq,                      \* AUTOINCREMENT counter of mr_records.id
    created_projects,            \* rows of table created_projects
    project_seq,                 \* AUTOINCREMENT counter of created_projects.id
    now,                         \* CURRENT_TIMESTAMP, in days
    project_db,                  \* the ProjectStatusDB object each thread's service holds
    lock,                        \* ProjectStatusDB.lock of each object: its holder
    writer,                      \* the connection holding sqlite's write lock on the file
    pc,                          \* each thread's position in the store method it runs
    enabled_tasks,               \* TaskScheduler: the tasks its configuration enables
    running,                     \* TaskScheduler.running
    stop_event,                  \* TaskScheduler.stop_event: whether it is set
    loop_threads,                \* the scheduling-loop threads started so far
    task_stats,                  \* TaskScheduler.task_stats: the run counters
    _excluded_rules,             \* SonarService._excluded_rules
    _excluded_rules_cache_time,  \* SonarService._excluded_rules_cache_time
    exclude_files,               \* etc/exclude_sonar_rule(.override) on disk
    gitlab_mrs,                  \* merge requests opened at the code host, per finding
    last_call                    \* the last operation invoked, its arguments and its result

vars == <<sonar_issue, mr_records, mr_seq, created_projects, project_seq, now, project_db,
          lock, writer, pc, enabled_tasks, running, stop_event, loop_threads,
          task_stats, _excluded_rules, _excluded_rules_cache_time,
          exclude_files, gitlab_mrs, last_call>>

store == <<sonar_issue, mr_records, mr_seq, created_projects, project_seq>>

\* the threads of the process, and the clock
threads == <<project_db, lock, writer, pc>>

\* the TaskScheduler object and the threads of its scheduling loops
scheduler == <<enabled_tasks, running, stop_event, loop_threads, task_stats>>

clock_and_threads == <<now, threads, scheduler>>

config == <<_excluded_rules, _excluded_rules_cache_time, exclude_files>>

-----------------------------------------------------------------------------
(* Bounds of the model and the small sets the inputs are drawn from.       *)

\* at most this many rows are ever inserted into mr_records (SpecMr)
MaxMrRecords == 2

\* the same, where the decision logic runs on top of the store (Spec)
MaxDecisionMrRecords == 1

\* at most this many merge requests are opened at the code host per finding
MaxGitlabMrs == 2

\* threads start no create_mr_record once this many rows were inserted
MaxThreadMrRecords == 2

\* at most this many rows are ever inserted into created_projects
MaxProjectRecords == 3

\* at most this many rows are ever inserted into mr_records (SpecSync)
MaxSyncMrRecords == 2

\* at most this many scheduling-loop threads are ever started
MaxLoopThreads == 2

\* a task is not started again once its total_runs is this
MaxRuns == 2

\* the latest modification time an edit gives the exclusion files
MaxMtime == 3

\* the clock stops at this day
MaxNow == 2

\* Python None / SQL NULL
NULL == "NULL"

\* the value standing for "no row" / a None where a row dict is expected
NoRecord == [id |-> 0]

Findings == {"F1", "F2"}

TaskKeys == {"JIRA-1", "JIRA-2"}

JiraProjectKeys == {"PROJ"}

SonarProjectKeys == {"sonar-project"}

MrUrls == {"https://host/mr/1", "https://host/mr/2"}

Reasons == {"style violations"}

Rules == {"java:S1234", "java:S5678"}

\* issue.rule of the findings SonarQube reports
RuleOf == [f \in Findings |-> IF f = "F1" THEN "java:S1234" ELSE "java:S5678"]

\* SonarQube project keys and the Jira project keys they are mapped to
ProjectKeys == {"test-project", "other-project"}

MappedKeys == {"TEST1", "TEST2"}

\* Python truthiness of an optional string: None and "" are false
Falsy(x) == x \in {NULL, ""}

\* str(x) as an f-string renders it: None prints as "None"
PyStr(x) == IF x = NULL THEN "None" ELSE x

\* the set of elements of a sequence
Range(s) == {s[i] : i \in DOMAIN s}

-----------------------------------------------------------------------------
(* Table mr_records: the status vocabulary (project_db.py docstrings).     *)

MrStatuses == {"created", "merged", "closed", "rejected"}

\* the tables as one value, as the methods of ProjectStatusDB see them
\* (with the CURRENT_TIMESTAMP their statements evaluate to)
DB == [sonar_issue |-> sonar_issue, mr_records |-> mr_records, mr_seq |-> mr_seq,
       created_projects |-> created_projects, project_seq |-> project_seq,
       now |-> now]

-----------------------------------------------------------------------------
(* ProjectStatusDB                                                         *)

\* SELECT jira_project_key FROM created_projects WHERE sonar_project_key = ?;
\* row[0] if row else None.  sonar_project_key is UNIQUE.
is_project_created(db, sonar_project_key) ==
    IF \E r \in db.created_projects : r.sonar_project_key = sonar_project_key
    THEN (CHOOSE r \in db.created_projects :
            r.sonar_project_key = sonar_project_key).jira_project_key
    ELSE NULL

\* a variant with a plain INSERT on a table without the UNIQUE constraint
record_created_project_appending(db, sonar_project_key, jira_project_key) ==
    IF NULL \in {sonar_project_key, jira_project_key}
    THEN db
    ELSE [db EXCEPT
            !.created_projects =
                @ \cup {[id                |-> db.project_seq + 1,
                         sonar_project_key |-> sonar_project_key,
                         jira_project_key  |-> jira_project_key,
                         created_time      |-> db.now]},
            !.project_seq = @ + 1]

\* a variant with INSERT OR IGNORE: the first mapping of a key stays
record_created_project_ignoring(db, sonar_project_key, jira_project_key) ==
    IF \/ NULL \in {sonar_project_key, jira_project_key}
       \/ \E r \in db.created_projects : r.sonar_project_key = sonar_project_key
    THEN db
    ELSE [db EXCEPT
            !.created_projects =
                @ \cup {[id                |-> db.project_seq + 1,
                         sonar_project_key |-> sonar_project_key,
                         jira_project_key  |-> jira_project_key,
                         created_time      |-> db.now]},
            !.project_seq = @ + 1]

\* INSERT OR REPLACE INTO created_projects ...: both columns are NOT NULL,
\* a NULL aborts the statement and the exception is logged.  Otherwise the
\* row of the same UNIQUE sonar_project_key, if any, is deleted and the new
\* row is inserted under a fresh AUTOINCREMENT id.  Returns nothing.
record_created_project(db, sonar_project_key, jira_project_key) ==
    IF NULL \in {sonar_project_key, jira_project_key}
    THEN db
    ELSE [db EXCEPT
            !.created_projects =
                {r \in @ : r.sonar_project_key # sonar_project_key}
                \cup {[id                |-> db.project_seq + 1,
                       sonar_project_key |-> sonar_project_key,
                       jira_project_key  |-> jira_project_key,
                       created_time      |-> db.now]},
            !.project_seq = @ + 1]

\* a variant whose SELECT has lost its WHERE clause: any row answers
is_task_created_any_row(db, sonar_issue_key) ==
    db.sonar_issue # {}

\* SELECT id FROM sonar_issue WHERE sonar_issue_key = ?; fetchone() is not None
is_task_created(db, sonar_issue_key) ==
    \E r \in db.sonar_issue : r.sonar_issue_key = sonar_issue_key

\* a variant whose VALUES tuple has the two ticket keys in each other's place
record_created_task_swapped(db, sonar_issue_key, jira_task_key, jira_project_key, sonar_project_key) ==
    IF NULL \in {sonar_issue_key, jira_task_key, jira_project_key, sonar_project_key}
    THEN db
    ELSE [db EXCEPT !.sonar_issue =
            {r \in @ : r.sonar_issue_key # sonar_issue_key}
            \cup {[sonar_issue_key   |-> sonar_issue_key,
                   jira_task_key     |-> jira_project_key,
                   jira_project_key  |-> jira_task_key,
                   sonar_project_key |-> sonar_project_key,
                   created_time      |-> db.now]}]

\* INSERT OR REPLACE INTO sonar_issue ...: the four columns are declared
\* NOT NULL without a default, so a NULL aborts the statement with an
\* IntegrityError, which the method catches and logs (nothing is returned,
\* nothing is written).  Otherwise the row with the same UNIQUE
\* sonar_issue_key, if any, is deleted and the new row inserted.
record_created_task(db, sonar_issue_key, jira_task_key, jira_project_key, sonar_project_key) ==
    IF NULL \in {sonar_issue_key, jira_task_key, jira_project_key, sonar_project_key}
    THEN db
    ELSE [db EXCEPT !.sonar_issue =
            {r \in @ : r.sonar_issue_key # sonar_issue_key}
            \cup {[sonar_issue_key   |-> sonar_issue_key,
                   jira_task_key     |-> jira_task_key,
                   jira_project_key  |-> jira_project_key,
                   sonar_project_key |-> sonar_project_key,
                   created_time      |-> db.now]}]

\* a variant that commits the UPDATE before it runs the INSERT
create_mr_record_two_commits(db, sonar_issue_key, mr_url, mr_status) ==
    LET retired == [db EXCEPT !.mr_records =
                        {IF r.sonar_issue_key = sonar_issue_key /\ r.is_latest
                         THEN [r EXCEPT !.is_latest = FALSE] ELSE r : r \in @}]
    IN  IF NULL \in {sonar_issue_key, mr_url}
        THEN [db |-> retired, ret |-> FALSE]
        ELSE [db |-> [retired EXCEPT
                        !.mr_records =
                            @ \cup {[id               |-> db.mr_seq + 1,
                                     sonar_issue_key  |-> sonar_issue_key,
                                     mr_url           |-> mr_url,
                                     mr_status        |-> mr_status,
                                     rejection_reason |-> NULL,
                                     submitted_time   |-> db.now,
                                     is_latest        |-> TRUE]},
                        !.mr_seq = @ + 1],
              ret |-> TRUE]

\* a variant without the UPDATE that retires the previous latest row
create_mr_record_no_retire(db, sonar_issue_key, mr_url, mr_status) ==
    IF NULL \in {sonar_issue_key, mr_url}
    THEN [db |-> db, ret |-> FALSE]
    ELSE [db |-> [db EXCEPT
                    !.mr_records =
                        @ \cup {[id               |-> db.mr_seq + 1,
                                 sonar_issue_key  |-> sonar_issue_key,
                                 mr_url           |-> mr_url,
                                 mr_status        |-> mr_status,
                                 rejection_reason |-> NULL,
                                 submitted_time   |-> db.now,
                                 is_latest        |-> TRUE]},
                    !.mr_seq = @ + 1],
          ret |-> TRUE]

\* a variant whose UPDATE also closes the record it retires
create_mr_record_closing(db, sonar_issue_key, mr_url, mr_status) ==
    IF NULL \in {sonar_issue_key, mr_url}
    THEN [db |-> db, ret |-> FALSE]
    ELSE [db |-> [db EXCEPT
                    !.mr_records =
                        {IF r.sonar_issue_key = sonar_issue_key /\ r.is_latest
                         THEN [r EXCEPT !.is_latest = FALSE, !.mr_status = "closed"]
                         ELSE r : r \in @}
                        \cup {[id               |-> db.mr_seq + 1,
                               sonar_issue_key  |-> sonar_issue_key,
                               mr_url           |-> mr_url,
                               mr_status        |-> mr_status,
                               rejection_reason |-> NULL,
                               submitted_time   |-> db.now,
                               is_latest        |-> TRUE]},
                    !.mr_seq = @ + 1],
          ret |-> TRUE]

\* UPDATE mr_records SET is_latest = FALSE WHERE sonar_issue_key = ? AND
\* is_latest = TRUE, then INSERT the new row with is_latest = TRUE, in one
\* transaction.  sonar_issue_key and mr_url are NOT NULL: a NULL makes the
\* INSERT raise, the connection context manager rolls the UPDATE back and
\* the method returns False.  rejection_reason is not among the inserted
\* columns and stays NULL.
create_mr_record(db, sonar_issue_key, mr_url, mr_status) ==
    IF NULL \in {sonar_issue_key, mr_url}
    THEN [db |-> db, ret |-> FALSE]
    ELSE [db |-> [db EXCEPT
                    !.mr_records =
                        {IF r.sonar_issue_key = sonar_issue_key /\ r.is_latest
                         THEN [r EXCEPT !.is_latest = FALSE] ELSE r : r \in @}
                        \cup {[id               |-> db.mr_seq + 1,
                               sonar_issue_key  |-> sonar_issue_key,
                               mr_url           |-> mr_url,
                               mr_status        |-> mr_status,
                               rejection_reason |-> NULL,
                               submitted_time   |-> db.now,
                               is_latest        |-> TRUE]},
                    !.mr_seq = @ + 1],
          ret |-> TRUE]

\* a variant with the one UPDATE that always binds rejection_reason
update_mr_record_status_one_statement(db, mr_url, mr_status, rejection_reason) ==
    [db  |-> [db EXCEPT !.mr_records =
                {IF r.mr_url = mr_url
                 THEN [r EXCEPT !.mr_status = mr_status,
                                !.rejection_reason = rejection_reason]
                 ELSE r : r \in @}],
     ret |-> \E r \in db.mr_records : r.mr_url = mr_url]

\* a variant that always takes the branch without rejection_reason
update_mr_record_status_drop_reason(db, mr_url, mr_status, rejection_reason) ==
    [db  |-> [db EXCEPT !.mr_records =
                {IF r.mr_url = mr_url
                 THEN [r EXCEPT !.mr_status = mr_status]
                 ELSE r : r \in @}],
     ret |-> \E r \in db.mr_records : r.mr_url = mr_url]

\* UPDATE mr_records SET mr_status = ? [, rejection_reason = ?] WHERE
\* mr_url = ?; the reason is written only when it is truthy; returns
\* cursor.rowcount > 0.
update_mr_record_status(db, mr_url, mr_status, rejection_reason) ==
    [db  |-> [db EXCEPT !.mr_records =
                {IF r.mr_url = mr_url
                 THEN [r EXCEPT !.mr_status = mr_status,
                                !.rejection_reason =
                                    IF Falsy(rejection_reason) THEN @
                                    ELSE rejection_reason]
                 ELSE r : r \in @}],
     ret |-> \E r \in db.mr_records : r.mr_url = mr_url]

\* a variant whose WHERE clause has lost the sonar_issue_key condition
get_latest_mr_record_any_issue(db, sonar_issue_key) ==
    LET hits == {r \in db.mr_records : r.is_latest}
    IN  IF hits = {} THEN NoRecord
        ELSE CHOOSE r \in hits : \A q \in hits : r.id <= q.id

\* SELECT ... WHERE sonar_issue_key = ? AND is_latest = TRUE; fetchone().
\* The query has no ORDER BY; sqlite walks the matching rows in rowid
\* order, so with several matches the one of least id is returned.
get_latest_mr_record(db, sonar_issue_key) ==
    LET hits == {r \in db.mr_records :
                    r.sonar_issue_key = sonar_issue_key /\ r.is_latest}
    IN  IF hits = {} THEN NoRecord
        ELSE CHOOSE r \in hits : \A q \in hits : r.id <= q.id

-----------------------------------------------------------------------------
(* ProjectStatusDB methods that SonarService calls.  They are written here *)
(* from the specification of the store (getIssueBasicInfo and the backfill *)
(* of ensureIssueTicket).                                                  *)

\* the issue row of the finding as a dict, or None
get_task_basic_info(db, sonar_issue_key) ==
    IF \E r \in db.sonar_issue : r.sonar_issue_key = sonar_issue_key
    THEN CHOOSE r \in db.sonar_issue : r.sonar_issue_key = sonar_issue_key
    ELSE NoRecord

\* writes the two ticket fields of the finding's row; True when a row was written
update_task_jira_info(db, sonar_issue_key, jira_task_key, jira_project_key) ==
    IF NULL \in {jira_task_key, jira_project_key}
    THEN [db |-> db, ret |-> FALSE]
    ELSE [db  |-> [db EXCEPT !.sonar_issue =
                     {IF r.sonar_issue_key = sonar_issue_key
                      THEN [r EXCEPT !.jira_task_key = jira_task_key,
                                     !.jira_project_key = jira_project_key]
                      ELSE r : r \in @}],
          ret |-> \E r \in db.sonar_issue : r.sonar_issue_key = sonar_issue_key]

-----------------------------------------------------------------------------
(* ProjectStatusDB methods that MRStatusSyncService calls.  They are       *)
(* written here from the specification of the store (getPendingMrRecords   *)
(* and batchUpdateMrStatus).                                               *)

\* the statuses for which nothing further is expected of a merge request
TerminalMrStatuses == {"merged", "closed"}

\* the rows of a set as a list, in the order of their ids
RECURSIVE ById(_)
ById(rows) ==
    IF rows = {} THEN <<>>
    ELSE LET first == CHOOSE r \in rows : \A q \in rows : r.id <= q.id
         IN  <<first>> \o ById(rows \ {first})

\* the records whose status is not terminal and which were submitted
\* within the last days_back days
get_pending_mr_records(db, days_back) ==
    ById({r \in db.mr_records :
            /\ r.mr_status \notin TerminalMrStatuses
            /\ r.submitted_time >= db.now - days_back})

\* applies each update through update_mr_record_status, in order; the
\* count of the updates that matched a row
RECURSIVE batch_update_mr_status(_, _)
batch_update_mr_status(db, updates) ==
    IF updates = <<>> THEN [db |-> db, ret |-> 0]
    ELSE LET u    == Head(updates)
             one  == update_mr_record_status(db, u.mr_url, u.mr_status,
                                             u.rejection_reason)
             rest == batch_update_mr_status(one.db, Tail(updates))
         IN  [db  |-> rest.db,
              ret |-> rest.ret + (IF one.ret THEN 1 ELSE 0)]

\* a variant whose DELETE on mr_records takes the rows after the cutoff
cleanup_old_records_newest(db, days) ==
    LET cutoff_time == db.now - days
    IN  [db EXCEPT
            !.sonar_issue = {r \in @ : ~(r.created_time <= cutoff_time)},
            !.mr_records = {r \in @ : ~(r.submitted_time > cutoff_time)},
            !.created_projects = {r \in @ : ~(r.created_time <= cutoff_time)}]

\* cleanup_old_records: the three DELETE statements of one transaction.
\* The clock counts days.  The stored stamps are CURRENT_TIMESTAMP texts
\* ("2024-01-02 10:00:00"), the bound cutoff is datetime.isoformat()
\* ("2024-01-02T10:00:00.000000"), and `<` compares them as text: a stamp
\* of the cutoff's day is smaller at the blank, so a row goes when its day
\* is the cutoff's day or earlier.  Returns nothing.
cleanup_old_records(db, days) ==
    LET cutoff_time == db.now - days
    IN  [db EXCEPT
            !.sonar_issue = {r \in @ : ~(r.created_time <= cutoff_time)},
            !.mr_records = {r \in @ : ~(r.submitted_time <= cutoff_time)},
            !.created_projects = {r \in @ : ~(r.created_time <= cutoff_time)}]

-----------------------------------------------------------------------------
(* SonarService: the rule exclusion configuration.  A file is given by     *)
(* whether it exists, its modification time and its parsed lines: the rule *)
(* ids of the base file, the (action, rule id) pairs of the override.      *)

\* the state of a SonarService's exclusion cache
Cfg == [rules |-> _excluded_rules, cache_time |-> _excluded_rules_cache_time]

\* max over the files that exist of st_mtime, 0 when none exists
current_time(files) ==
    LET mt(f) == IF f.exists THEN f.mtime ELSE 0
    IN  IF mt(files.base) >= mt(files.override) THEN mt(files.base)
        ELSE mt(files.override)

\* the override lines applied in file order to the base set
RECURSIVE apply_override(_, _)
apply_override(excluded, lines) ==
    IF lines = <<>> THEN excluded
    ELSE LET l == Head(lines)
         IN  apply_override(
                IF l[1] = "ENABLE" THEN excluded \ {l[2]}
                ELSE IF l[1] = "DISABLE" THEN excluded \cup {l[2]}
                ELSE excluded,
                Tail(lines))

_load_excluded_rules(cfg, files) ==
    IF current_time(files) <= cfg.cache_time THEN cfg
    ELSE [rules |-> apply_override(
                        IF files.base.exists THEN files.base.rules ELSE {},
                        IF files.override.exists THEN files.override.lines ELSE <<>>),
          cache_time |-> current_time(files)]

\* a variant that loads the configuration and then excludes nothing
is_rule_excluded_never(cfg, files, rule_id) ==
    [cfg |-> _load_excluded_rules(cfg, files), ret |-> FALSE]

is_rule_excluded(cfg, files, rule_id) ==
    LET c == _load_excluded_rules(cfg, files)
    IN  [cfg |-> c, ret |-> rule_id \in c.rules]

\* what can fail while the configuration is loaded: "load" is an exception
\* in _load_excluded_rules itself (the directory, exists(), stat()), "base"
\* and "override" an exception while that file is opened and read, which
\* its parser catches
LoadFaults == {"none", "load", "base", "override"}

\* _load_excluded_rules with the given failure: its except branch empties
\* the set and leaves the cache time; a parser that fails returns what it
\* has collected, here nothing, and the load goes on with it
_load_excluded_rules_failing(cfg, files, fault) ==
    IF fault = "load" THEN [rules |-> {}, cache_time |-> cfg.cache_time]
    ELSE IF current_time(files) <= cfg.cache_time THEN cfg
    ELSE [rules |-> apply_override(
                        IF files.base.exists /\ fault # "base"
                        THEN files.base.rules ELSE {},
                        IF files.override.exists /\ fault # "override"
                        THEN files.override.lines ELSE <<>>),
          cache_time |-> current_time(files)]

is_rule_excluded_failing(cfg, files, rule_id, fault) ==
    LET c == _load_excluded_rules_failing(cfg, files, fault)
    IN  [cfg |-> c, ret |-> rule_id \in c.rules]

-----------------------------------------------------------------------------
(* SonarService: issue records, MR records and the decision.               *)

\* the parameters ProjectStatusDB.create_mr_record declares (besides self)
create_mr_record_params ==
    {"sonar_issue_key", "mr_url", "mr_iid", "mr_title", "mr_description",
     "branch_name", "source_branch", "target_branch", "mr_status"}

\* the keyword arguments add_issue_mr_record passes to create_mr_record
add_issue_mr_record_passes ==
    {"sonar_issue_key", "mr_url", "mr_id", "git_project_id", "mr_title",
     "mr_description", "branch_name", "source_branch", "target_branch", "mr_status"}

\* the parameters SonarService.add_issue_mr_record declares (besides self)
add_issue_mr_record_params ==
    {"sonar_issue_key", "mr_url", "mr_id", "git_project_id", "mr_title",
     "mr_description", "branch_name", "source_branch", "target_branch", "mr_status"}

\* the keyword arguments _fix_single_issue_with_mr passes to add_issue_mr_record
fix_single_issue_passes ==
    {"sonar_issue_key", "mr_url", "mr_iid", "mr_title", "mr_description",
     "branch_name", "source_branch", "target_branch", "mr_status"}

\* a Python call with keyword arguments binds iff every keyword names a
\* parameter; else it raises TypeError before the body runs
Binds(keywords, params) == keywords \subseteq params

\* a variant that goes straight to record_created_task (INSERT OR REPLACE)
create_sonar_issue_record_replace(db, sonar_issue_key, sonar_project, jira_task_key, jira_project_key) ==
    [db  |-> record_created_task(db, sonar_issue_key, jira_task_key,
                                 jira_project_key, sonar_project),
     ret |-> TRUE]

\* get_task_basic_info, then: a row whose two ticket fields are both falsy
\* is backfilled; a row with ticket fields is left alone (True); with no
\* row, or when the backfill fails, record_created_task writes the row.
create_sonar_issue_record(db, sonar_issue_key, sonar_project, jira_task_key, jira_project_key) ==
    LET existing_record == get_task_basic_info(db, sonar_issue_key)
        upd == update_task_jira_info(db, sonar_issue_key, jira_task_key,
                                     jira_project_key)
        created == [db  |-> record_created_task(db, sonar_issue_key, jira_task_key,
                                                jira_project_key, sonar_project),
                    ret |-> TRUE]
    IN  IF existing_record # NoRecord
        THEN IF Falsy(existing_record.jira_task_key)
                /\ Falsy(existing_record.jira_project_key)
             THEN IF upd.ret THEN [db |-> upd.db, ret |-> TRUE] ELSE created
             ELSE [db |-> db, ret |-> TRUE]
        ELSE created

\* create_sonar_issue_record after its get_task_basic_info has returned
\* existing_record: the store calls that follow act on the tables as they
\* are by then
create_sonar_issue_record_write(db, existing_record, sonar_issue_key, sonar_project, jira_task_key, jira_project_key) ==
    LET upd == update_task_jira_info(db, sonar_issue_key, jira_task_key,
                                     jira_project_key)
        created == [db  |-> record_created_task(db, sonar_issue_key, jira_task_key,
                                                jira_project_key, sonar_project),
                    ret |-> TRUE]
    IN  IF existing_record # NoRecord
        THEN IF Falsy(existing_record.jira_task_key)
                /\ Falsy(existing_record.jira_project_key)
             THEN IF upd.ret THEN [db |-> upd.db, ret |-> TRUE] ELSE created
             ELSE [db |-> db, ret |-> TRUE]
        ELSE created

\* hasattr(project_db, "create_mr_record") holds; the call passes mr_id and
\* git_project_id by keyword, and a call that does not bind raises
\* TypeError inside the try, which returns False.  ProjectStatusDB has no
\* update_mr_status, so that branch is skipped.
add_issue_mr_record(db, sonar_issue_key, mr_url, mr_status) ==
    IF ~Binds(add_issue_mr_record_passes, create_mr_record_params)
    THEN [db |-> db, ret |-> FALSE]
    ELSE create_mr_record(db, sonar_issue_key, mr_url, mr_status)

\* the texts of the result dict (the source's are Chinese)
ReasonExcluded == "rule is in the exclusion list, no fix needed"

ReasonNoRecord == "no issue record found, initial record created"

ReasonNoMr == "issue record found but no mr record found"

ReasonRejected == "issue record and mr record found, but mr rejected: "

ReasonOther == "issue record and mr record found, MR status is: "

\* a variant that, on reporting a rejected MR, takes its latest flag away
\* (the rejection is consumed by the evaluation)
is_issue_need_fix_consuming(db, cfg, files, sonar_issue_key, sonar_rule) ==
    LET latest_mr == get_latest_mr_record(db, sonar_issue_key)
        has_task == is_task_created(db, sonar_issue_key)
        rejected == /\ has_task
                    /\ latest_mr # NoRecord
                    /\ latest_mr.mr_status = "rejected"
    IN  [db  |-> IF rejected
                 THEN [db EXCEPT !.mr_records =
                         {IF r = latest_mr THEN [r EXCEPT !.is_latest = FALSE]
                          ELSE r : r \in @}]
                 ELSE db,
         cfg |-> cfg,
         ret |-> [need_fix |-> ~has_task \/ latest_mr = NoRecord \/ rejected,
                  reason |-> IF rejected
                             THEN <<ReasonRejected, PyStr(latest_mr.rejection_reason)>>
                             ELSE <<ReasonOther>>,
                  current_status |-> IF has_task THEN "has_task" ELSE NULL,
                  latest_mr |-> IF has_task THEN latest_mr ELSE NoRecord,
                  action_required |-> "none"]]

is_issue_need_fix(db, cfg, files, sonar_issue_key, sonar_rule) ==
    LET ex == is_rule_excluded(cfg, files, sonar_rule)
        latest_mr == get_latest_mr_record(db, sonar_issue_key)
    IN  IF ~Falsy(sonar_rule) /\ ex.ret
        THEN [db |-> db, cfg |-> ex.cfg,
              ret |-> [need_fix |-> FALSE,
                       reason |-> <<ReasonExcluded, sonar_rule>>,
                       current_status |-> "excluded",
                       latest_mr |-> NoRecord,
                       action_required |-> "none - rule excluded"]]
        ELSE LET c == IF Falsy(sonar_rule) THEN cfg ELSE ex.cfg
             IN  IF ~is_task_created(db, sonar_issue_key)
                 THEN [db |-> record_created_task(db, sonar_issue_key, NULL, NULL, NULL),
                       cfg |-> c,
                       ret |-> [need_fix |-> TRUE,
                                reason |-> <<ReasonNoRecord>>,
                                current_status |-> NULL,
                                latest_mr |-> NoRecord,
                                action_required |-> "create issue record and start fixing"]]
                 ELSE IF latest_mr = NoRecord
                 THEN [db |-> db, cfg |-> c,
                       ret |-> [need_fix |-> TRUE,
                                reason |-> <<ReasonNoMr>>,
                                current_status |-> "has_task",
                                latest_mr |-> NoRecord,
                                action_required |-> "start fixing and create MR"]]
                 ELSE IF latest_mr.mr_status = "rejected"
                 THEN [db |-> db, cfg |-> c,
                       ret |-> [need_fix |-> TRUE,
                                reason |-> <<ReasonRejected,
                                             PyStr(latest_mr.rejection_reason)>>,
                                current_status |-> "has_task",
                                latest_mr |-> latest_mr,
                                action_required |-> "fix again and submit a new MR"]]
                 ELSE [db |-> db, cfg |-> c,
                       ret |-> [need_fix |-> FALSE,
                                reason |-> <<ReasonOther, latest_mr.mr_status>>,
                                current_status |-> "has_task",
                                latest_mr |-> latest_mr,
                                action_required |->
                                    IF latest_mr.mr_status \in {"merged", "closed"}
                                    THEN "none" ELSE "wait for the MR result"]]

-----------------------------------------------------------------------------
(* SonarService.is_issue_need_fix when things fail.  A failing read comes  *)
(* back from ProjectStatusDB as its except branch returns it: False from   *)
(* is_task_created, None from get_latest_mr_record; a failing              *)
(* record_created_task writes nothing and returns; an exception in the try *)
(* block of is_issue_need_fix itself ends in its except branch.            *)

\* what can fail during an evaluation
Faults == {"is_task_created", "get_latest_mr_record", "record_created_task", "evaluation"}

\* the failures of one evaluation: one thing fails, or the store is down
\* for the ticket read and the placeholder write alike
FaultSets == {{x} : x \in Faults} \cup {{"is_task_created", "record_created_task"}}

ReasonError == "an error occurred during the check"

\* a variant of the except branch that answers need_fix False
error_result_closed ==
    [need_fix |-> FALSE, reason |-> <<ReasonError>>, current_status |-> NULL,
     latest_mr |-> NoRecord, action_required |-> "check the system and retry"]

\* the dict the except branch of is_issue_need_fix returns
error_result ==
    [need_fix |-> TRUE, reason |-> <<ReasonError>>, current_status |-> NULL,
     latest_mr |-> NoRecord, action_required |-> "check the system and retry"]

\* the tables as the reads of a failing evaluation report them
AsRead(db, faults) ==
    [db EXCEPT !.sonar_issue = IF "is_task_created" \in faults THEN {} ELSE @,
               !.mr_records = IF "get_latest_mr_record" \in faults THEN {} ELSE @]

\* is_issue_need_fix with the given failures: the evaluation goes its way
\* on what the reads report; the placeholder is written to the tables
\* unless that write fails
is_issue_need_fix_failing(db, cfg, files, sonar_issue_key, sonar_rule, faults) ==
    IF "evaluation" \in faults
    THEN [db |-> db, cfg |-> cfg, ret |-> error_result]
    ELSE LET r == is_issue_need_fix(AsRead(db, faults), cfg, files,
                                    sonar_issue_key, sonar_rule)
         IN  [db  |-> IF \/ "record_created_task" \in faults
                         \/ r.ret.reason # <<ReasonNoRecord>>
                      THEN db
                      ELSE record_created_task(db, sonar_issue_key, NULL, NULL, NULL),
              cfg |-> r.cfg,
              ret |-> r.ret]

-----------------------------------------------------------------------------
(* MRStatusSyncService (sonar_tools/service/mr_sync_service.py).  The code *)
(* host answers a batch query with a dict from MR URL to a dict with the   *)
(* keys "state" and "merge_status"; a URL it could not query is not in     *)
(* the answer.                                                             *)

\* a key that the dict of a merge request does not have
Absent == "ABSENT"

\* str.lower() on the states and merge statuses of GitlabMrData
lower(x) ==
    CASE x = "Merged" -> "merged"
      [] x = "Can_Be_Merged" -> "can_be_merged"
      [] OTHER -> x

\* the dict of one merge request in an answer
GitlabMrData ==
    [state : {"opened", "Merged", "locked", Absent}, merge_status : {NULL}]
    \cup [state : {"closed"}, merge_status : {"can_be_merged", "cannot_be_merged"}]

\* the answers to a batch query: a dict over some of the URLs
GitlabAnswers == UNION {[urls -> GitlabMrData] : urls \in SUBSET MrUrls}

\* the dicts of merge requests whose merge_status is absent (get gives
\* None) or one of its values in some spelling, whatever the state
ReportedMrData ==
    [state : {"opened", "closed"},
     merge_status : {NULL, "can_be_merged", "Can_Be_Merged", "cannot_be_merged"}]

ReportedAnswers == UNION {[urls -> ReportedMrData] : urls \in SUBSET MrUrls}

\* self.gitlab_client: None when its construction failed, a client whose
\* batch query answers, or one whose batch query raises
GitlabClients == {NULL, "answering", "raising"}

\* f"MR closed, merge status: {merge_status}" (the text is Chinese in the code)
ClosedReason(merge_status) ==
    IF merge_status = "cannot_be_merged"
    THEN "MR closed, merge status: cannot_be_merged"
    ELSE "MR closed, merge status: can_be_merged"

\* a variant of the mapping that takes a closed merge request for a rejected one
_map_gitlab_state_to_our_status_rejecting(gitlab_state) ==
    CASE lower(gitlab_state) = "opened" -> "created"
      [] lower(gitlab_state) = "merged" -> "merged"
      [] lower(gitlab_state) = "closed" -> "rejected"
      [] OTHER -> NULL

\* state_mapping.get(gitlab_state.lower())
_map_gitlab_state_to_our_status(gitlab_state) ==
    CASE lower(gitlab_state) = "opened" -> "created"
      [] lower(gitlab_state) = "merged" -> "merged"
      [] lower(gitlab_state) = "closed" -> "closed"
      [] OTHER -> NULL

\* gitlab_mr_data.get("state", "")
StateOf(gitlab_mr_data) ==
    IF gitlab_mr_data.state = Absent THEN "" ELSE gitlab_mr_data.state

\* a variant of the loop body that gives the reason whatever the new status
examine_reasoning(mr, mr_status_data) ==
    IF mr.mr_url \notin DOMAIN mr_status_data
    THEN [failed |-> 1, updates |-> <<>>]
    ELSE LET gitlab_mr_data == mr_status_data[mr.mr_url]
             new_status == _map_gitlab_state_to_our_status(lower(StateOf(gitlab_mr_data)))
         IN  IF new_status # NULL /\ new_status # mr.mr_status
             THEN [failed |-> 0,
                   updates |-> <<[mr_url |-> mr.mr_url, mr_status |-> new_status,
                                  rejection_reason |->
                                      IF /\ ~Falsy(gitlab_mr_data.merge_status)
                                         /\ lower(gitlab_mr_data.merge_status) # "can_be_merged"
                                      THEN ClosedReason(gitlab_mr_data.merge_status)
                                      ELSE NULL]>>]
             ELSE [failed |-> 0, updates |-> <<>>]

\* a variant of the loop body without the comparison with the stored status
examine_restaging(mr, mr_status_data) ==
    IF mr.mr_url \notin DOMAIN mr_status_data
    THEN [failed |-> 1, updates |-> <<>>]
    ELSE LET gitlab_mr_data == mr_status_data[mr.mr_url]
             new_status == _map_gitlab_state_to_our_status(lower(StateOf(gitlab_mr_data)))
         IN  IF new_status # NULL
             THEN [failed |-> 0,
                   updates |-> <<[mr_url |-> mr.mr_url, mr_status |-> new_status,
                                  rejection_reason |->
                                      IF /\ new_status = "closed"
                                         /\ ~Falsy(gitlab_mr_data.merge_status)
                                         /\ lower(gitlab_mr_data.merge_status) # "can_be_merged"
                                      THEN ClosedReason(gitlab_mr_data.merge_status)
                                      ELSE NULL]>>]
             ELSE [failed |-> 0, updates |-> <<>>]

\* the body of the loop over the pending records: a record the answer does
\* not have counts as failed; an update is staged when the state maps to a
\* status other than the stored one, with a rejection reason when the merge
\* request was closed and its merge_status is not "can_be_merged"
examine(mr, mr_status_data) ==
    IF mr.mr_url \notin DOMAIN mr_status_data
    THEN [failed |-> 1, updates |-> <<>>]
    ELSE LET gitlab_mr_data == mr_status_data[mr.mr_url]
             new_status == _map_gitlab_state_to_our_status(lower(StateOf(gitlab_mr_data)))
         IN  IF new_status # NULL /\ new_status # mr.mr_status
             THEN [failed |-> 0,
                   updates |-> <<[mr_url |-> mr.mr_url, mr_status |-> new_status,
                                  rejection_reason |->
                                      IF /\ new_status = "closed"
                                         /\ ~Falsy(gitlab_mr_data.merge_status)
                                         /\ lower(gitlab_mr_data.merge_status) # "can_be_merged"
                                      THEN ClosedReason(gitlab_mr_data.merge_status)
                                      ELSE NULL]>>]
             ELSE [failed |-> 0, updates |-> <<>>]

\* the loop over the pending records
RECURSIVE examine_all(_, _)
examine_all(pending_mrs, mr_status_data) ==
    IF pending_mrs = <<>> THEN [failed |-> 0, updates |-> <<>>]
    ELSE LET one  == examine(Head(pending_mrs), mr_status_data)
             rest == examine_all(Tail(pending_mrs), mr_status_data)
         IN  [failed  |-> one.failed + rest.failed,
              updates |-> one.updates \o rest.updates]

\* what a cycle returns (success, total_mrs, updated_mrs, failed_mrs) and
\* what it did on the way: the batch queries it sent to the code host
\* (queried) and the updates it handed to batch_update_mr_status (staged)
SyncResult(success, total, updated, failed, queried, staged) ==
    [success |-> success, total_mrs |-> total, updated_mrs |-> updated,
     failed_mrs |-> failed, queried |-> queried, staged |-> staged]

\* a variant that writes no update when a pending record was not answered
query_and_update_all_or_nothing(db, gitlab_client, pending_mrs, answers) ==
    LET mr_data_list == [i \in DOMAIN pending_mrs |-> pending_mrs[i].mr_url]
        examined == examine_all(pending_mrs, answers)
        written  == batch_update_mr_status(db, examined.updates)
    IN  IF gitlab_client = "raising"
        THEN [db |-> db, ret |-> SyncResult(FALSE, 0, 0, 0, <<mr_data_list>>, <<>>)]
        ELSE [db  |-> IF examined.updates # <<>> /\ examined.failed = 0
                      THEN written.db ELSE db,
              ret |-> SyncResult(TRUE, Len(pending_mrs), Len(examined.updates),
                                 examined.failed, <<mr_data_list>>, examined.updates)]

\* the cycle from the batch query on: a raising client ends it in the
\* except branch, before anything is written
query_and_update(db, gitlab_client, pending_mrs, answers) ==
    LET mr_data_list == [i \in DOMAIN pending_mrs |-> pending_mrs[i].mr_url]
        examined == examine_all(pending_mrs, answers)
        written  == batch_update_mr_status(db, examined.updates)
    IN  IF gitlab_client = "raising"
        THEN [db |-> db, ret |-> SyncResult(FALSE, 0, 0, 0, <<mr_data_list>>, <<>>)]
        ELSE [db  |-> IF examined.updates # <<>> THEN written.db ELSE db,
              ret |-> SyncResult(TRUE, Len(pending_mrs), Len(examined.updates),
                                 examined.failed, <<mr_data_list>>, examined.updates)]

\* a variant without the try block: what the batch query raises reaches the
\* caller instead of a result
sync_mr_status_propagating(db, gitlab_client, days_back, answers) ==
    IF gitlab_client = NULL
    THEN [db |-> db, ret |-> SyncResult(FALSE, 0, 0, 0, <<>>, <<>>)]
    ELSE LET pending_mrs == get_pending_mr_records(db, days_back)
         IN  IF pending_mrs = <<>>
             THEN [db |-> db, ret |-> SyncResult(TRUE, 0, 0, 0, <<>>, <<>>)]
             ELSE IF gitlab_client = "raising"
             THEN [db |-> db, ret |-> [raised |-> TRUE]]
             ELSE query_and_update(db, gitlab_client, pending_mrs, answers)

\* a variant without the early return for an empty list of pending records
sync_mr_status_querying_always(db, gitlab_client, days_back, answers) ==
    IF gitlab_client = NULL
    THEN [db |-> db, ret |-> SyncResult(FALSE, 0, 0, 0, <<>>, <<>>)]
    ELSE query_and_update(db, gitlab_client, get_pending_mr_records(db, days_back), answers)

\* One cycle.  Without a client: success False.  Without pending records:
\* success True with zero counts, at once.  Otherwise the batch query, the
\* loop, and one batch_update_mr_status call when updates were staged.
sync_mr_status(db, gitlab_client, days_back, answers) ==
    IF gitlab_client = NULL
    THEN [db |-> db, ret |-> SyncResult(FALSE, 0, 0, 0, <<>>, <<>>)]
    ELSE LET pending_mrs == get_pending_mr_records(db, days_back)
         IN  IF pending_mrs = <<>>
             THEN [db |-> db, ret |-> SyncResult(TRUE, 0, 0, 0, <<>>, <<>>)]
             ELSE query_and_update(db, gitlab_client, pending_mrs, answers)

-----------------------------------------------------------------------------
(* Actions: the store operations called directly.                          *)

\* what last_call holds: the operation, the finding or URL it was called
\* for, its other arguments as a tuple, and what it returned as a record
Call(op, key, arg, ret) == [op |-> op, key |-> key, arg |-> arg, ret |-> ret]

\* a returned bool, and a method that returns nothing
Bool(b) == [bool |-> b]

None == [none |-> TRUE]

\* a returned Optional[str]
Str(x) == [str |-> x]

SetDB(db) ==
    /\ sonar_issue' = db.sonar_issue
    /\ mr_records' = db.mr_records
    /\ mr_seq' = db.mr_seq
    /\ created_projects' = db.created_projects
    /\ project_seq' = db.project_seq

SetCfg(cfg) ==
    /\ _excluded_rules' = cfg.rules
    /\ _excluded_rules_cache_time' = cfg.cache_time

IsProjectCreated ==
    \E k \in ProjectKeys :
        /\ last_call' = Call("is_project_created", k, <<>>, Str(is_project_created(DB, k)))
        /\ UNCHANGED <<store, config, gitlab_mrs, clock_and_threads>>

RecordCreatedProject ==
    \E k \in ProjectKeys, v \in MappedKeys \cup {NULL} :
        /\ project_seq < MaxProjectRecords
        /\ SetDB(record_created_project(DB, k, v))
        /\ last_call' = Call("record_created_project", k, <<v>>, None)
        /\ UNCHANGED <<config, gitlab_mrs, clock_and_threads>>

IsTaskCreated ==
    \E f \in Findings :
        /\ last_call' = Call("is_task_created", f, <<>>, Bool(is_task_created(DB, f)))
        /\ UNCHANGED <<store, config, gitlab_mrs, clock_and_threads>>

RecordCreatedTask ==
    \E f \in Findings, t \in TaskKeys \cup {NULL}, p \in JiraProjectKeys \cup {NULL},
       s \in SonarProjectKeys :
        /\ SetDB(record_created_task(DB, f, t, p, s))
        /\ last_call' = Call("record_created_task", f, <<t, p>>, None)
        /\ UNCHANGED <<config, gitlab_mrs, clock_and_threads>>

CreateMrRecord(limit) ==
    \E f \in Findings, u \in MrUrls, st \in MrStatuses :
        /\ mr_seq < limit
        /\ LET r == create_mr_record(DB, f, u, st)
           IN  /\ SetDB(r.db)
               /\ last_call' = Call("create_mr_record", f, <<u, st>>, Bool(r.ret))
        /\ UNCHANGED <<config, gitlab_mrs, clock_and_threads>>

\* the same call with mr_url = None (a merge request result without "url")
CreateMrRecordNoUrl ==
    \E f \in Findings, st \in MrStatuses :
        /\ LET r == create_mr_record(DB, f, NULL, st)
           IN  /\ SetDB(r.db)
               /\ last_call' = Call("create_mr_record", f, <<NULL, st>>, Bool(r.ret))
        /\ UNCHANGED <<config, gitlab_mrs, clock_and_threads>>

UpdateMrRecordStatus ==
    \E u \in MrUrls, st \in MrStatuses, rr \in Reasons \cup {NULL, ""} :
        /\ LET r == update_mr_record_status(DB, u, st, rr)
           IN  /\ SetDB(r.db)
               /\ last_call' = Call("update_mr_record_status", u, <<st, rr>>, Bool(r.ret))
        /\ UNCHANGED <<config, gitlab_mrs, clock_and_threads>>

GetLatestMrRecord ==
    \E f \in Findings :
        /\ last_call' = Call("get_latest_mr_record", f, <<>>,
                             get_latest_mr_record(DB, f))
        /\ UNCHANGED <<store, config, gitlab_mrs, clock_and_threads>>

-----------------------------------------------------------------------------
(* Actions: the SonarService operations.                                   *)

CreateSonarIssueRecord ==
    \E f \in Findings, t \in TaskKeys, p \in JiraProjectKeys, s \in SonarProjectKeys :
        /\ LET r == create_sonar_issue_record(DB, f, s, t, p)
           IN  /\ SetDB(r.db)
               /\ last_call' = Call("create_sonar_issue_record", f, <<t, p>>, Bool(r.ret))
        /\ UNCHANGED <<config, gitlab_mrs, clock_and_threads>>

AddIssueMrRecord ==
    \E f \in Findings, u \in MrUrls :
        /\ mr_seq < MaxDecisionMrRecords
        /\ LET r == add_issue_mr_record(DB, f, u, "created")
           IN  /\ SetDB(r.db)
               /\ last_call' = Call("add_issue_mr_record", f, <<u, "created">>, Bool(r.ret))
        /\ UNCHANGED <<config, gitlab_mrs, clock_and_threads>>

IsIssueNeedFix ==
    \E f \in Findings, rule \in Rules \cup {NULL} :
        /\ LET r == is_issue_need_fix(DB, Cfg, exclude_files, f, rule)
           IN  /\ SetDB(r.db)
               /\ SetCfg(r.cfg)
               /\ last_call' = Call("is_issue_need_fix", f, <<rule>>, r.ret)
        /\ UNCHANGED <<exclude_files, gitlab_mrs, clock_and_threads>>

-----------------------------------------------------------------------------
(* AICodeFixer._process_project_issues: one iteration of the loop over the *)
(* issues of a project.  The git, AI and code-host steps are collaborators *)
(* whose outcome is an input: the fix fails somewhere before the merge     *)
(* request, or the merge request is opened.                                *)

\* the MR record write of _fix_single_issue_with_mr: the call passes mr_iid
\* by keyword; a call that does not bind raises TypeError, which the
\* except around it logs, and the store is as before.
record_mr_of_fix(db, sonar_issue_key, mr_url) ==
    IF ~Binds(fix_single_issue_passes, add_issue_mr_record_params)
    THEN db
    ELSE add_issue_mr_record(db, sonar_issue_key, mr_url, "created").db

ProcessIssue ==
    \E f \in Findings, u \in MrUrls, mr_result \in BOOLEAN :
        LET chk == is_issue_need_fix(DB, Cfg, exclude_files, f, NULL)
        IN  /\ SetCfg(chk.cfg)
            /\ IF ~chk.ret.need_fix
               THEN /\ SetDB(chk.db)
                    /\ UNCHANGED gitlab_mrs
                    /\ last_call' = Call("_process_project_issues", f, <<"skipped">>,
                                         chk.ret)
               ELSE IF mr_result /\ gitlab_mrs[f] < MaxGitlabMrs
               THEN /\ gitlab_mrs' = [gitlab_mrs EXCEPT ![f] = @ + 1]
                    /\ SetDB(record_mr_of_fix(chk.db, f, u))
                    /\ last_call' = Call("_process_project_issues", f, <<"mr_created">>,
                                         chk.ret)
               ELSE /\ SetDB(chk.db)
                    /\ UNCHANGED gitlab_mrs
                    /\ last_call' = Call("_process_project_issues", f, <<"fix_failed">>,
                                         chk.ret)
            /\ UNCHANGED <<exclude_files, clock_and_threads>>

-----------------------------------------------------------------------------
(* Threads.  TaskScheduler.start runs each task in a thread of its own;    *)
(* _execute_ai_fixer_task builds an AICodeFixer, whose SonarService builds *)
(* a ProjectStatusDB, and _execute_mr_sync_task builds an                  *)
(* MRStatusSyncService, which builds another: every ProjectStatusDB object *)
(* has a threading.Lock of its own.  Callers that pass one ProjectStatusDB *)
(* to several threads share its lock.                                      *)

Threads == {"thread-1", "thread-2"}

Objects == {"db1", "db2"}

Free == "free"

\* one ProjectStatusDB handed to both threads
SharedObject == [t \in Threads |-> "db1"]

\* the service each task thread constructs (SonarService(),
\* MRStatusSyncService()) constructs a ProjectStatusDB of its own
ObjectPerService == [t \in Threads |-> IF t = "thread-1" THEN "db1" ELSE "db2"]

\* a thread outside every store method
Idle == [at |-> "idle"]

\* a thread inside `with self.lock:` and `with sqlite3.connect(...)`, about
\* to run the method's first statement
Connected(op, key, arg) ==
    [at |-> "connected", op |-> op, key |-> key, arg |-> arg]

\* a thread about to leave the method with the value ret
Returning(call, ret) ==
    [at |-> "returning", op |-> call.op, key |-> call.key, arg |-> call.arg,
     ret |-> ret]

\* a variant for connections that do not take the file's write lock
sqlite_reserved_unchecked(holder, t) == TRUE

\* the first write statement of a connection opens a transaction and takes
\* sqlite's write lock on the database file, which one connection holds at
\* a time
sqlite_reserved(holder, t) == holder \in {Free, t}

\* UPDATE mr_records SET is_latest = FALSE WHERE sonar_issue_key = ? AND
\* is_latest = TRUE, inside the open transaction: the rows it changes
txn_update(db, sonar_issue_key) ==
    {r.id : r \in {q \in db.mr_records :
                    q.sonar_issue_key = sonar_issue_key /\ q.is_latest}}

\* INSERT INTO mr_records ... and conn.commit(): the transaction's UPDATE
\* and INSERT become visible together
txn_commit(db, flipped, sonar_issue_key, mr_url, mr_status) ==
    [db EXCEPT
        !.mr_records =
            {IF r.id \in flipped THEN [r EXCEPT !.is_latest = FALSE] ELSE r : r \in @}
            \cup {[id               |-> db.mr_seq + 1,
                   sonar_issue_key  |-> sonar_issue_key,
                   mr_url           |-> mr_url,
                   mr_status        |-> mr_status,
                   rejection_reason |-> NULL,
                   submitted_time   |-> db.now,
                   is_latest        |-> TRUE]},
        !.mr_seq = @ + 1]

\* `with self.lock:` of the thread's ProjectStatusDB object
Enter(t, call) ==
    /\ pc[t] = Idle
    /\ lock[project_db[t]] = Free
    /\ lock' = [lock EXCEPT ![project_db[t]] = t]
    /\ pc' = [pc EXCEPT ![t] = call]
    /\ UNCHANGED <<store, config, gitlab_mrs, now, scheduler, project_db, writer, last_call>>

\* (the threads work on the same finding)
EnterCreateMrRecord ==
    \E t \in Threads, f \in {"F1"}, u \in MrUrls :
        /\ mr_seq < MaxThreadMrRecords
        /\ Enter(t, Connected("create_mr_record", f, <<u, "created">>))

EnterUpdateMrRecordStatus ==
    \E t \in Threads, u \in MrUrls, st \in {"merged"} :
        Enter(t, Connected("update_mr_record_status", u, <<st, NULL>>))

\* create_mr_record: the UPDATE
CreateMrRecordUpdate ==
    \E t \in Threads :
        /\ pc[t].at = "connected"
        /\ pc[t].op = "create_mr_record"
        /\ sqlite_reserved(writer, t)
        /\ writer' = t
        /\ pc' = [pc EXCEPT ![t] =
                    [at |-> "updated", op |-> @.op, key |-> @.key, arg |-> @.arg,
                     flipped |-> txn_update(DB, @.key)]]
        /\ UNCHANGED <<store, config, gitlab_mrs, now, scheduler, project_db, lock, last_call>>

\* a write statement while another connection holds the file's write lock:
\* after the busy timeout sqlite3 raises OperationalError (database is
\* locked), the method logs it and returns False
DatabaseIsLocked ==
    \E t \in Threads :
        /\ pc[t].at = "connected"
        /\ ~sqlite_reserved(writer, t)
        /\ pc' = [pc EXCEPT ![t] = Returning(@, FALSE)]
        /\ UNCHANGED <<store, config, gitlab_mrs, now, scheduler, project_db, lock, writer,
                       last_call>>

\* create_mr_record: the INSERT and conn.commit()
CreateMrRecordCommit ==
    \E t \in Threads :
        /\ pc[t].at = "updated"
        /\ SetDB(txn_commit(DB, pc[t].flipped, pc[t].key, pc[t].arg[1], pc[t].arg[2]))
        /\ writer' = Free
        /\ pc' = [pc EXCEPT ![t] = Returning(@, TRUE)]
        /\ UNCHANGED <<config, gitlab_mrs, now, scheduler, project_db, lock, last_call>>

\* update_mr_record_status: its one UPDATE and conn.commit()
UpdateMrRecordStatusCommit ==
    \E t \in Threads :
        /\ pc[t].at = "connected"
        /\ pc[t].op = "update_mr_record_status"
        /\ sqlite_reserved(writer, t)
        /\ LET r == update_mr_record_status(DB, pc[t].key, pc[t].arg[1], pc[t].arg[2])
           IN  /\ SetDB(r.db)
               /\ pc' = [pc EXCEPT ![t] = Returning(@, r.ret)]
        /\ UNCHANGED <<config, gitlab_mrs, now, scheduler, project_db, lock, writer, last_call>>

\* return: the with blocks are left and the lock is released
Return ==
    \E t \in Threads :
        /\ pc[t].at = "returning"
        /\ lock' = [lock EXCEPT ![project_db[t]] = Free]
        /\ pc' = [pc EXCEPT ![t] = Idle]
        /\ last_call' = Call(pc[t].op, pc[t].key, pc[t].arg, Bool(pc[t].ret))
        /\ UNCHANGED <<store, config, gitlab_mrs, now, scheduler, project_db, writer>>

-----------------------------------------------------------------------------
(* Actions: evaluations during which the store or the evaluation fails.    *)

IsIssueNeedFixFailing ==
    \E f \in Findings, rule \in Rules \cup {NULL}, faults \in FaultSets :
        /\ LET r == is_issue_need_fix_failing(DB, Cfg, exclude_files, f, rule, faults)
           IN  /\ SetDB(r.db)
               /\ SetCfg(r.cfg)
               /\ last_call' = Call("is_issue_need_fix", f, <<rule, faults>>, r.ret)
        /\ UNCHANGED <<exclude_files, gitlab_mrs, clock_and_threads>>

-----------------------------------------------------------------------------
(* Actions: the exclusion files are edited; rules are looked up while the  *)
(* load may fail.                                                          *)

\* the contents an edit leaves in etc/exclude_sonar_rule.override: NULL is
\* no such file
OverrideEditions ==
    {NULL, <<<<"ENABLE", "java:S1234">>>>, <<<<"DISABLE", "java:S5678">>>>}

\* somebody saves the two files; their modification time is later than any
\* before
EditExcludeFiles ==
    \E rules \in SUBSET Rules \ {{}}, lines \in OverrideEditions :
        LET m == current_time(exclude_files) + 1
        IN  /\ m <= MaxMtime
            /\ exclude_files' =
                   [base     |-> [exists |-> TRUE, mtime |-> m, rules |-> rules],
                    override |-> IF lines = NULL
                                 THEN [exists |-> FALSE, mtime |-> 0, lines |-> <<>>]
                                 ELSE [exists |-> TRUE, mtime |-> m, lines |-> lines]]
            /\ last_call' = Call("edit_exclude_files", NULL, <<>>, None)
            /\ UNCHANGED <<store, _excluded_rules, _excluded_rules_cache_time,
                           gitlab_mrs, clock_and_threads>>

IsRuleExcludedFailing ==
    \E rule \in Rules, fault \in LoadFaults :
        /\ LET r == is_rule_excluded_failing(Cfg, exclude_files, rule, fault)
           IN  /\ SetCfg(r.cfg)
               /\ last_call' = Call("is_rule_excluded", NULL, <<rule, fault>>, Bool(r.ret))
        /\ UNCHANGED <<store, exclude_files, gitlab_mrs, clock_and_threads>>

\* one of the two files is deleted; the other is as it was
RemoveExcludeFile ==
    \E which \in {"base", "override"} :
        /\ exclude_files[which].exists
        /\ exclude_files' =
              IF which = "base"
              THEN [exclude_files EXCEPT
                        !.base = [exists |-> FALSE, mtime |-> 0, rules |-> {}]]
              ELSE [exclude_files EXCEPT
                        !.override = [exists |-> FALSE, mtime |-> 0, lines |-> <<>>]]
        /\ last_call' = Call("remove_exclude_file", which, <<>>, None)
        /\ UNCHANGED <<store, _excluded_rules, _excluded_rules_cache_time,
                       gitlab_mrs, clock_and_threads>>

\* the base file is replaced by a file that keeps its own, earlier or
\* equal, modification time (mv, cp -p, a checkout that restores times)
ReplaceExcludeFile ==
    \E rules \in SUBSET Rules \ {{}}, m \in 1..MaxMtime :
        /\ exclude_files.base.exists
        /\ m <= exclude_files.base.mtime
        /\ exclude_files' = [exclude_files EXCEPT
                                !.base = [exists |-> TRUE, mtime |-> m, rules |-> rules]]
        /\ last_call' = Call("replace_exclude_file", "base", <<>>, None)
        /\ UNCHANGED <<store, _excluded_rules, _excluded_rules_cache_time,
                       gitlab_mrs, clock_and_threads>>

IsRuleExcluded ==
    \E rule \in Rules :
        /\ LET r == is_rule_excluded(Cfg, exclude_files, rule)
           IN  /\ SetCfg(r.cfg)
               /\ last_call' = Call("is_rule_excluded", NULL, <<rule, "none">>, Bool(r.ret))
        /\ UNCHANGED <<store, exclude_files, gitlab_mrs, clock_and_threads>>

-----------------------------------------------------------------------------
(* Actions: SonarService methods called from two threads.  Each store call *)
(* is one transaction under the lock; between the read a method starts     *)
(* with and the write that follows, the other thread may run.              *)

\* a thread between the get_task_basic_info and the write of
\* create_sonar_issue_record
Checked(key, arg, existing_record) ==
    [at |-> "checked", op |-> "create_sonar_issue_record", key |-> key, arg |-> arg,
     existing_record |-> existing_record]

\* a thread between the is_task_created that returned False and the
\* placeholder write of is_issue_need_fix
Placeholding(key) ==
    [at |-> "placeholding", op |-> "is_issue_need_fix", key |-> key]

ServiceFrame == <<config, gitlab_mrs, now, project_db, lock, writer, scheduler>>

CreateSonarIssueRecordCheck ==
    \E t \in Threads, f \in Findings, k \in TaskKeys, p \in JiraProjectKeys :
        /\ pc[t] = Idle
        /\ pc' = [pc EXCEPT ![t] = Checked(f, <<k, p>>, get_task_basic_info(DB, f))]
        /\ last_call' = Call("get_task_basic_info", f, <<>>,
                             Bool(get_task_basic_info(DB, f) # NoRecord))
        /\ UNCHANGED <<store, ServiceFrame>>

CreateSonarIssueRecordWrite ==
    \E t \in Threads :
        /\ pc[t].at = "checked"
        /\ LET r == create_sonar_issue_record_write(DB, pc[t].existing_record, pc[t].key,
                                                    "sonar-project", pc[t].arg[1],
                                                    pc[t].arg[2])
           IN  /\ SetDB(r.db)
               /\ last_call' = Call("create_sonar_issue_record", pc[t].key, pc[t].arg,
                                    Bool(r.ret))
        /\ pc' = [pc EXCEPT ![t] = Idle]
        /\ UNCHANGED ServiceFrame

\* is_issue_need_fix(f) up to its return or, when is_task_created has
\* returned False, up to the placeholder write
IsIssueNeedFixCheck ==
    \E t \in Threads, f \in Findings :
        /\ pc[t] = Idle
        /\ IF is_task_created(DB, f)
           THEN /\ last_call' = Call("is_issue_need_fix", f, <<NULL>>,
                        is_issue_need_fix(DB, Cfg, exclude_files, f, NULL).ret)
                /\ pc' = pc
           ELSE /\ last_call' = Call("is_task_created", f, <<>>, Bool(FALSE))
                /\ pc' = [pc EXCEPT ![t] = Placeholding(f)]
        /\ UNCHANGED <<store, ServiceFrame>>

IsIssueNeedFixPlaceholder ==
    \E t \in Threads :
        /\ pc[t].at = "placeholding"
        /\ SetDB(record_created_task(DB, pc[t].key, NULL, NULL, NULL))
        /\ last_call' = Call("is_issue_need_fix", pc[t].key, <<NULL>>,
                is_issue_need_fix(AsRead(DB, {"is_task_created"}), Cfg, exclude_files,
                                  pc[t].key, NULL).ret)
        /\ pc' = [pc EXCEPT ![t] = Idle]
        /\ UNCHANGED ServiceFrame

-----------------------------------------------------------------------------
(* Actions: days pass and old records are cleaned up.                      *)

\* the retention a cleanup is called with, in days
RetentionDays == {0, 1}

\* the next day begins
Tick ==
    /\ now < MaxNow
    /\ now' = now + 1
    /\ last_call' = Call("tick", NULL, <<>>, None)
    /\ UNCHANGED <<store, config, gitlab_mrs, threads, scheduler>>

CleanupOldRecords ==
    \E days \in RetentionDays :
        /\ SetDB(cleanup_old_records(DB, days))
        /\ last_call' = Call("cleanup_old_records", NULL, <<days>>, None)
        /\ UNCHANGED <<config, gitlab_mrs, clock_and_threads>>

-----------------------------------------------------------------------------
(* Actions: the reconciliation cycle.                                      *)

\* a merge request of finding F1 is recorded, as submitted or as rejected
SubmitMr ==
    \E u \in MrUrls, st \in {"created", "rejected"} :
        /\ mr_seq < MaxSyncMrRecords
        /\ LET r == create_mr_record(DB, "F1", u, st)
           IN  /\ SetDB(r.db)
               /\ last_call' = Call("create_mr_record", "F1", <<u, st>>, Bool(r.ret))
        /\ UNCHANGED <<config, gitlab_mrs, clock_and_threads>>

\* one sync_mr_status cycle, called with one of the given days_back: the
\* client the service holds and what the code host answers are inputs
SyncMrStatus(days) ==
    \E c \in GitlabClients, d \in days, a \in GitlabAnswers :
        /\ c # "answering" => a = <<>>
        /\ LET r == sync_mr_status(DB, c, d, a)
           IN  /\ SetDB(r.db)
               /\ last_call' = Call("sync_mr_status", NULL, <<c, d, a>>, r.ret)
        /\ UNCHANGED <<config, gitlab_mrs, clock_and_threads>>

\* a cycle of a service whose client answers with merge statuses of every
\* kind
SyncMrStatusReported ==
    \E a \in ReportedAnswers :
        /\ LET r == sync_mr_status(DB, "answering", 7, a)
           IN  /\ SetDB(r.db)
               /\ last_call' = Call("sync_mr_status", NULL, <<"answering", 7, a>>, r.ret)
        /\ UNCHANGED <<config, gitlab_mrs, clock_and_threads>>

-----------------------------------------------------------------------------
(* TaskScheduler (sonar_tools/scheduler.py).  start() creates one thread   *)
(* per enabled task, which runs _task_scheduler_loop: compute the next     *)
(* cron time, wait for it on stop_event, run the task's executor, again.   *)
(* What a task does to the store is the subject of the specifications      *)
(* above; here an execution is given by its outcome.                       *)

Tasks == {"main_task", "mr_sync", "ai_fixer"}

\* the order in which start() goes through the tasks
TaskOrder == <<"main_task", "mr_sync", "ai_fixer">>

\* how the execution of a task ends: its result has success True, or it
\* has success False (the except branch of the executor), or the executor
\* itself raises
Outcomes == {"success", "failure", "raised"}

\* a scheduling-loop thread: its task, where it is in the loop, and how
\* the last execution it started has ended
LoopThread(task, at, last) == [task |-> task, at |-> at, last |-> last]

\* tasks_to_start as threads at the top of their loops
RECURSIVE started(_, _)
started(enabled, order) ==
    IF order = <<>> THEN <<>>
    ELSE (IF Head(order) \in enabled
          THEN <<LoopThread(Head(order), "top", NULL)>> ELSE <<>>)
         \o started(enabled, Tail(order))

\* _execute_main_task / _execute_mr_sync_task / _execute_ai_fixer_task on
\* the counters: successful_runs or failed_runs, and total_runs in the
\* finally block; an executor that raises before its try block counts
\* nothing
executed(stats, task, outcome) ==
    CASE outcome = "success" ->
            [stats EXCEPT ![task].successful_runs = @ + 1, ![task].total_runs = @ + 1]
      [] outcome = "failure" ->
            [stats EXCEPT ![task].failed_runs = @ + 1, ![task].total_runs = @ + 1]
      [] OTHER -> stats

\* a variant of the loop's handler that leaves the loop when the executor raised
after_execution_breaking(outcome) == IF outcome = "raised" THEN "ended" ELSE "top"

\* where the loop goes when the executor is done: to the top of the loop
\* when it returned (its result is dropped), to the except branch and its
\* one minute's wait when it raised
after_execution(outcome) == IF outcome = "raised" THEN "backoff" ELSE "top"

\* start(): False when no task is enabled or the scheduler is running;
\* otherwise running is set, the event cleared and a thread started per
\* enabled task (the cron expressions of the configuration are valid)
Start ==
    IF enabled_tasks = {} \/ running
    THEN /\ last_call' = Call("start", NULL, <<>>, Bool(FALSE))
         /\ UNCHANGED <<store, config, gitlab_mrs, now, threads, scheduler>>
    ELSE /\ Len(loop_threads) + Cardinality(enabled_tasks) <= MaxLoopThreads
         /\ running' = TRUE
         /\ stop_event' = FALSE
         /\ loop_threads' = loop_threads \o started(enabled_tasks, TaskOrder)
         /\ last_call' = Call("start", NULL, <<>>, Bool(TRUE))
         /\ UNCHANGED <<store, config, gitlab_mrs, now, threads, enabled_tasks, task_stats>>

\* thread.join(timeout=10) after the event is set: a thread that is not in
\* its executor wakes up or reaches its next check of the event and ends
\* within the ten seconds; an executor runs for as long as its task takes,
\* and the join of its thread may time out
joined(t) == IF t.at = "executing" THEN t ELSE [t EXCEPT !.at = "ended"]

\* stop(): nothing when not running; otherwise running is reset, the event
\* set and every thread joined for ten seconds at most
Stop ==
    /\ running' = FALSE
    /\ stop_event' = (running \/ stop_event)
    /\ loop_threads' = IF running
                       THEN [i \in DOMAIN loop_threads |-> joined(loop_threads[i])]
                       ELSE loop_threads
    /\ last_call' = Call("stop", NULL, <<>>, None)
    /\ UNCHANGED <<store, config, gitlab_mrs, now, threads, enabled_tasks, task_stats>>

\* thread i moves to another place of its loop
Goto(i, at) ==
    /\ loop_threads' = [loop_threads EXCEPT ![i].at = at]
    /\ UNCHANGED <<store, config, gitlab_mrs, now, threads, enabled_tasks, running,
                   stop_event, task_stats, last_call>>

\* `while not self.stop_event.is_set()`, and the next cron time
LoopTop(i) ==
    /\ loop_threads[i].at = "top"
    /\ Goto(i, IF stop_event THEN "ended" ELSE "waiting")

\* stop_event.wait(sleep_seconds): True when the event is set, False when
\* the cron time has come
LoopWait(i) ==
    /\ loop_threads[i].at = "waiting"
    /\ Goto(i, IF stop_event THEN "ended" ELSE "due")

\* `if not self.stop_event.is_set(): task_executor()`
LoopCall(i) ==
    /\ loop_threads[i].at = "due"
    /\ ~stop_event => task_stats[loop_threads[i].task].total_runs < MaxRuns
    /\ Goto(i, IF stop_event THEN "top" ELSE "executing")

\* the executor is done
LoopReturn(i) ==
    \E outcome \in Outcomes :
        /\ loop_threads[i].at = "executing"
        /\ task_stats' = executed(task_stats, loop_threads[i].task, outcome)
        /\ loop_threads' = [loop_threads EXCEPT
                                ![i].at = after_execution(outcome),
                                ![i].last = outcome]
        /\ UNCHANGED <<store, config, gitlab_mrs, now, threads, enabled_tasks, running,
                       stop_event, last_call>>

\* the except branch: `if not self.stop_event.wait(60): continue`, else break
LoopBackoff(i) ==
    /\ loop_threads[i].at = "backoff"
    /\ Goto(i, IF stop_event THEN "ended" ELSE "top")

\* a step of _task_scheduler_loop in thread i
LoopStep(i) ==
    /\ i \in DOMAIN loop_threads
    /\ LoopTop(i) \/ LoopWait(i) \/ LoopCall(i) \/ LoopReturn(i) \/ LoopBackoff(i)

TaskSchedulerLoop == \E i \in 1..MaxLoopThreads : LoopStep(i)

-----------------------------------------------------------------------------
(* The executors on the counters, statement by statement.  An executor     *)
(* runs in the scheduling thread of its task and, through run_once, in the *)
(* thread of whoever calls it; task_stats is shared and no lock is held.   *)
(* `self.task_stats[task][counter] += 1` loads the counter, adds one and   *)
(* stores the sum, and another thread may run between the load and the     *)
(* store.                                                                  *)

\* the counter an execution with this result increments before total_runs
CounterOf(outcome) == IF outcome = "success" THEN "successful_runs" ELSE "failed_runs"

\* a thread inside the executor of a task: the counter its next statement
\* is about, whether it has loaded it, and the value it loaded
InExecutor(task, outcome, counter, loaded, value) ==
    [at |-> "executor", task |-> task, outcome |-> outcome, counter |-> counter,
     loaded |-> loaded, value |-> value]

ExecutorFrame ==
    <<store, config, gitlab_mrs, now, project_db, lock, writer, enabled_tasks, running,
      stop_event, loop_threads>>

\* a thread enters _execute_mr_sync_task: the scheduling thread of mr_sync,
\* or the caller of run_once("mr_sync"); the run will succeed or fail
ExecutorEnter ==
    \E t \in Threads, task \in {"mr_sync"}, outcome \in {"success", "failure"} :
        /\ pc[t] = Idle
        /\ task_stats[task].total_runs < MaxRuns
        /\ task_stats[task].successful_runs + task_stats[task].failed_runs < MaxRuns
        /\ pc' = [pc EXCEPT ![t] = InExecutor(task, outcome, CounterOf(outcome), FALSE, 0)]
        /\ last_call' = Call("execute", task, <<t>>, None)
        /\ UNCHANGED <<task_stats, ExecutorFrame>>

\* the load of `+= 1`
ExecutorLoad ==
    \E t \in Threads :
        /\ pc[t].at = "executor"
        /\ ~pc[t].loaded
        /\ pc' = [pc EXCEPT ![t].loaded = TRUE,
                            ![t].value = task_stats[pc[t].task][pc[t].counter]]
        /\ UNCHANGED <<task_stats, last_call, ExecutorFrame>>

\* the store of `+= 1`; after the one on total_runs the executor returns
ExecutorStore ==
    \E t \in Threads :
        /\ pc[t].at = "executor"
        /\ pc[t].loaded
        /\ task_stats' = [task_stats EXCEPT ![pc[t].task][pc[t].counter] = pc[t].value + 1]
        /\ IF pc[t].counter = "total_runs"
           THEN /\ pc' = [pc EXCEPT ![t] = Idle]
                /\ last_call' = Call("executed", pc[t].task, <<t>>,
                                     Bool(pc[t].outcome = "success"))
           ELSE /\ pc' = [pc EXCEPT ![t] = InExecutor(pc[t].task, pc[t].outcome,
                                                      "total_runs", FALSE, 0)]
                /\ UNCHANGED last_call
        /\ UNCHANGED ExecutorFrame

-----------------------------------------------------------------------------
(* The state after construction: empty tables (_init_database), and a      *)
(* SonarService that has loaded an exclusion file naming one rule.         *)

InitFiles ==
    [base     |-> [exists |-> TRUE, mtime |-> 1, rules |-> {"java:S1234"}],
     override |-> [exists |-> FALSE, mtime |-> 0, lines |-> <<>>]]

InitStore ==
    /\ sonar_issue = {}
    /\ mr_records = {}
    /\ mr_seq = 0
    /\ created_projects = {}
    /\ project_seq = 0
    /\ now = 0
    /\ exclude_files = InitFiles
    /\ LET c == _load_excluded_rules([rules |-> {}, cache_time |-> 0], InitFiles)
       IN  /\ _excluded_rules = c.rules
           /\ _excluded_rules_cache_time = c.cache_time
    /\ gitlab_mrs = [f \in Findings |-> 0]
    /\ last_call = Call("init", NULL, <<>>, None)

\* no thread is inside a store method
InitLocks ==
    /\ lock = [o \in Objects |-> Free]
    /\ writer = Free
    /\ pc = [t \in Threads |-> Idle]

\* TaskScheduler.__init__: not running, the event clear, no thread, the
\* counters 0
InitScheduler ==
    /\ running = FALSE
    /\ stop_event = FALSE
    /\ loop_threads = <<>>
    /\ task_stats = [t \in Tasks |-> [total_runs |-> 0, successful_runs |-> 0,
                                      failed_runs |-> 0]]

Init ==
    /\ InitStore
    /\ project_db = ObjectPerService
    /\ InitLocks
    /\ enabled_tasks = {"mr_sync", "ai_fixer"}
    /\ InitScheduler

\* the store with the decision logic on top of it
Next ==
    \/ CreateSonarIssueRecord
    \/ CreateMrRecord(MaxDecisionMrRecords)
    \/ UpdateMrRecordStatus
    \/ AddIssueMrRecord
    \/ IsIssueNeedFix

Spec == Init /\ [][Next]_vars

\* the MR records table alone
NextMr ==
    \/ CreateMrRecord(MaxMrRecords)
    \/ CreateMrRecordNoUrl
    \/ UpdateMrRecordStatus
    \/ GetLatestMrRecord

SpecMr == Init /\ [][NextMr]_vars

\* the issue records table alone
NextIssue ==
    \/ RecordCreatedTask
    \/ CreateSonarIssueRecord
    \/ IsTaskCreated

SpecIssue == Init /\ [][NextIssue]_vars

\* the project mappings and the issue records: the two keyed tables
NextKeyed ==
    \/ RecordCreatedProject
    \/ IsProjectCreated
    \/ RecordCreatedTask

SpecKeyed == Init /\ [][NextKeyed]_vars

\* two threads calling the MR record methods, statement by statement,
\* through one shared ProjectStatusDB or through one each
InitThreads ==
    /\ InitStore
    /\ project_db \in {SharedObject, ObjectPerService}
    /\ InitLocks
    /\ enabled_tasks = {"mr_sync", "ai_fixer"}
    /\ InitScheduler

NextThreads ==
    \/ EnterCreateMrRecord
    \/ EnterUpdateMrRecordStatus
    \/ CreateMrRecordUpdate
    \/ DatabaseIsLocked
    \/ CreateMrRecordCommit
    \/ UpdateMrRecordStatusCommit
    \/ Return

SpecThreads == InitThreads /\ [][NextThreads]_vars

\* the reconciliation cycles over the records of submitted merge requests
NextSync ==
    \/ SubmitMr
    \/ SyncMrStatus({7})

SpecSync == Init /\ [][NextSync]_vars

\* the cycles when the code host reports merge statuses of every kind
NextReported ==
    \/ SubmitMr
    \/ SyncMrStatusReported

SpecReported == Init /\ [][NextReported]_vars

\* evaluations on a store that may fail
NextFailing ==
    \/ CreateSonarIssueRecord
    \/ CreateMrRecord(MaxDecisionMrRecords)
    \/ IsIssueNeedFixFailing

SpecFailing == Init /\ [][NextFailing]_vars

\* rule lookups while the files change and loads fail
NextExclusion == EditExcludeFiles \/ IsRuleExcludedFailing

SpecExclusion == Init /\ [][NextExclusion]_vars

\* merge requests are recorded over some days and cleaned up
NextRetention == Tick \/ SubmitMr \/ CleanupOldRecords

SpecRetention == Init /\ [][NextRetention]_vars

\* records are written over some days and cleaned up
NextCleanup == Tick \/ RecordCreatedTask \/ SubmitMr \/ CleanupOldRecords

SpecCleanup == Init /\ [][NextCleanup]_vars

\* rule lookups while the files are edited, replaced and removed
NextSources ==
    \/ EditExcludeFiles
    \/ RemoveExcludeFile
    \/ ReplaceExcludeFile
    \/ IsRuleExcluded

SpecSources == Init /\ [][NextSources]_vars

\* the two check-then-write methods of SonarService in two threads
NextService ==
    \/ CreateSonarIssueRecordCheck
    \/ CreateSonarIssueRecordWrite
    \/ IsIssueNeedFixCheck
    \/ IsIssueNeedFixPlaceholder

SpecService == Init /\ [][NextService]_vars

\* executions of the tasks from two threads
NextExecutors == ExecutorEnter \/ ExecutorLoad \/ ExecutorStore

SpecExecutors == Init /\ [][NextExecutors]_vars

\* the scheduler: one or both of the store's tasks enabled
InitTaskScheduler ==
    /\ InitStore
    /\ project_db = ObjectPerService
    /\ InitLocks
    /\ enabled_tasks \in {{"mr_sync"}, {"mr_sync", "ai_fixer"}}
    /\ InitScheduler

NextScheduler ==
    \/ Start
    \/ Stop
    \/ TaskSchedulerLoop

SpecScheduler == InitTaskScheduler /\ [][NextScheduler]_vars

\* every thread gets to run, the cron time of a waiting loop comes, and an
\* execution ends
FairScheduler == SpecScheduler /\ \A i \in 1..MaxLoopThreads : WF_vars(LoopStep(i))

\* repeated remediation runs, ticket creation and manual MR status changes
NextPipeline ==
    \/ ProcessIssue
    \/ CreateSonarIssueRecord
    \/ UpdateMrRecordStatus

SpecPipeline == Init /\ [][NextPipeline]_vars

-----------------------------------------------------------------------------
(* Vocabulary of the properties.                                           *)

\* the MR rows of a finding, and those flagged latest
MrOf(f) == {r \in mr_records : r.sonar_issue_key = f}

LatestOf(f) == {r \in MrOf(f) : r.is_latest}

\* the row of a finding inserted last: ids grow with every insert
NewestOf(f) == {r \in MrOf(f) : \A q \in MrOf(f) : q.id <= r.id}

\* the issue rows of a finding, and those with both ticket fields set
IssueRows(f) == {r \in sonar_issue : r.sonar_issue_key = f}

Ticketed(f) ==
    {r \in IssueRows(f) : r.jira_task_key # NULL /\ r.jira_project_key # NULL}

\* the thread is inside a store method: it holds the lock of its object
InCriticalSection(t) == pc[t].at # "idle"

\* the step is a call of the operation op
Called(op) == last_call'.op = op

-----------------------------------------------------------------------------
(* C1: for every finding, however create_mr_record calls were interleaved  *)
(* with status updates and with calls for other findings, exactly one of   *)
(* its MR rows is flagged latest (none when it has no row), that row is    *)
(* the one inserted last, and get_latest_mr_record returns it.             *)
C1_OneLatestAndItIsTheNewest ==
    /\ \A f \in Findings :
        /\ MrOf(f) = {} => get_latest_mr_record(DB, f) = NoRecord
        /\ MrOf(f) # {} =>
            /\ Cardinality(LatestOf(f)) = 1
            /\ LatestOf(f) = NewestOf(f)
            /\ get_latest_mr_record(DB, f) \in NewestOf(f)
    /\ last_call.op = "get_latest_mr_record" =>
        IF MrOf(last_call.key) = {} THEN last_call.ret = NoRecord
        ELSE last_call.ret \in NewestOf(last_call.key)

\* two inserts for F1, the first one rejected in between and no longer
\* latest, and get_latest_mr_record(F1) has returned the second
C1_Witness ==
    /\ last_call.op = "get_latest_mr_record"
    /\ last_call.key = "F1"
    /\ last_call.ret.id = 2
    /\ \E r \in MrOf("F1") :
        /\ r.id = 1
        /\ ~r.is_latest
        /\ r.mr_status = "rejected"
        /\ r.rejection_reason = "style violations"

-----------------------------------------------------------------------------
(* C2: a call of is_issue_need_fix whose rule is not excluded returns      *)
(* need_fix = true exactly when the finding has no issue record, or has no *)
(* latest MR record, or its latest MR record is rejected; with an issue    *)
(* record and a latest MR that is created, merged or closed it returns     *)
(* need_fix = false.                                                       *)
C2_DecisionTable ==
    [][Called("is_issue_need_fix")
       /\ ~(~Falsy(last_call'.arg[1]) /\ last_call'.arg[1] \in _excluded_rules')
       => LET f == last_call'.key
          IN  /\ last_call'.ret.need_fix =
                    (\/ IssueRows(f) = {}
                     \/ LatestOf(f) = {}
                     \/ \E r \in LatestOf(f) : r.mr_status = "rejected")
              /\ (/\ IssueRows(f) # {}
                  /\ \E r \in LatestOf(f) :
                        r.mr_status \in {"created", "merged", "closed"})
                 => ~last_call'.ret.need_fix]_vars

\* a finding with an issue record whose latest MR is closed was evaluated
\* and needs no fix
C2_Witness ==
    /\ last_call.op = "is_issue_need_fix"
    /\ last_call.arg[1] = NULL
    /\ IssueRows(last_call.key) # {}
    /\ ~last_call.ret.need_fix
    /\ last_call.ret.latest_mr \in LatestOf(last_call.key)
    /\ last_call.ret.latest_mr.mr_status = "closed"

-----------------------------------------------------------------------------
(* C3: across repeated runs of the remediation loop a merge request is     *)
(* opened for a finding only when is_issue_need_fix said need_fix, and     *)
(* once one was opened for the finding no further one is opened unless the *)
(* finding's latest MR record is rejected.                                 *)
C3_AtMostOneMrPerFinding ==
    [][\A f \in Findings :
        gitlab_mrs'[f] > gitlab_mrs[f] =>
            /\ last_call'.ret.need_fix
            /\ \/ gitlab_mrs[f] = 0
               \/ \E r \in LatestOf(f) : r.mr_status = "rejected"]_vars

-----------------------------------------------------------------------------
-----------------------------------------------------------------------------
(* C5: is_issue_need_fix without an excluded rule on a finding that has no *)
(* issue record returns need_fix = true with the 'no record' reason and    *)
(* leaves exactly one issue record of the finding, with null ticket        *)
(* fields.                                                                 *)
C5_PlaceholderCreated ==
    [][Called("is_issue_need_fix")
       /\ ~(~Falsy(last_call'.arg[1]) /\ last_call'.arg[1] \in _excluded_rules')
       /\ IssueRows(last_call'.key) = {}
       => /\ last_call'.ret.need_fix
          /\ last_call'.ret.reason = <<ReasonNoRecord>>
          /\ \E r \in sonar_issue' :
                /\ r.sonar_issue_key = last_call'.key
                /\ r.jira_task_key = NULL
                /\ r.jira_project_key = NULL
                /\ \A q \in sonar_issue' :
                        q.sonar_issue_key = last_call'.key => q = r]_vars

-----------------------------------------------------------------------------
(* C6: a call of is_issue_need_fix with a rule of the exclusion set        *)
(* returns need_fix = false whatever is stored for the finding, and leaves *)
(* the tables as they were.                                                *)
C6_ExcludedRuleNoFixNoWrite ==
    [][Called("is_issue_need_fix")
       /\ ~Falsy(last_call'.arg[1])
       /\ last_call'.arg[1] \in _excluded_rules'
       => /\ ~last_call'.ret.need_fix
          /\ store' = store]_vars

\* a finding never seen before was evaluated under the excluded rule: no
\* fix, and still no issue record
C6_Witness ==
    /\ last_call.op = "is_issue_need_fix"
    /\ last_call.arg[1] \in _excluded_rules
    /\ ~last_call.ret.need_fix
    /\ last_call.ret.current_status = "excluded"
    /\ IssueRows(last_call.key) = {}
    /\ \E g \in Findings : IssueRows(g) # {}

-----------------------------------------------------------------------------
(* C7: is_issue_need_fix on a finding that has an issue record changes no  *)
(* table, and a second call right after the first, with the same           *)
(* arguments, returns the same result; whatever the finding, the only      *)
(* change a call may make is the insert of a placeholder row for a finding *)
(* that had no issue record.                                               *)
C7_PureBesidesPlaceholder ==
    [][Called("is_issue_need_fix") =>
        LET f == last_call'.key
        IN  /\ IssueRows(f) # {} => store' = store
            /\ \/ store' = store
               \/ /\ IssueRows(f) = {}
                  /\ <<mr_records, mr_seq>>' = <<mr_records, mr_seq>>
                  /\ sonar_issue' = sonar_issue \cup
                        {[sonar_issue_key |-> f, jira_task_key |-> NULL,
                          jira_project_key |-> NULL, sonar_project_key |-> NULL,
                          created_time |-> now]}
            /\ (/\ last_call.op = "is_issue_need_fix"
                /\ last_call.key = f
                /\ last_call.arg = last_call'.arg
                /\ IssueRows(f) # {})
               => last_call'.ret = last_call.ret]_vars

\* a finding with an issue record and a rejected latest MR was evaluated
C7_Witness ==
    /\ last_call.op = "is_issue_need_fix"
    /\ IssueRows(last_call.key) # {}
    /\ last_call.ret.need_fix
    /\ last_call.ret.latest_mr \in LatestOf(last_call.key)

-----------------------------------------------------------------------------
(* C8: add_issue_mr_record(f, url, mr_status = 'created') on a finding     *)
(* with an issue record returns true, leaves a latest MR record of f with  *)
(* status 'created', and is_issue_need_fix(f) then returns need_fix =      *)
(* false with a reason reporting 'created'.                                *)
C8_AddMrRecordStored ==
    (/\ last_call.op = "add_issue_mr_record"
     /\ IssueRows(last_call.key) # {})
    => /\ last_call.ret.bool
       /\ \E r \in LatestOf(last_call.key) :
            r.mr_status = "created" /\ r.mr_url = last_call.arg[1]
       /\ LET chk == is_issue_need_fix(DB, Cfg, exclude_files, last_call.key, NULL)
          IN  /\ ~chk.ret.need_fix
              /\ chk.ret.reason = <<ReasonOther, "created">>

-----------------------------------------------------------------------------
(* C9: is_issue_need_fix(f) called right after                              *)
(* update_mr_record_status(url, 'rejected', R) has changed the latest MR   *)
(* record of f returns need_fix = true, a reason that contains R, and that *)
(* rejected record as latest_mr.                                           *)
RejectedThenEvaluated ==
    /\ last_call.op = "update_mr_record_status"
    /\ last_call.arg[1] = "rejected"
    /\ last_call.arg[2] \in Reasons
    /\ Called("is_issue_need_fix")
    /\ last_call'.arg[1] = NULL
    /\ \E r \in LatestOf(last_call'.key) : r.mr_url = last_call.key

RejectedResult ==
    /\ last_call'.ret.need_fix
    /\ last_call.arg[2] \in Range(last_call'.ret.reason)
    /\ last_call'.ret.latest_mr \in LatestOf(last_call'.key)
    /\ last_call'.ret.latest_mr.mr_status = "rejected"
    /\ last_call'.ret.latest_mr.rejection_reason = last_call.arg[2]

\* as claimed: for every finding
C9_RejectedNeedsFix ==
    [][RejectedThenEvaluated => RejectedResult]_vars

\* as amended: for a finding that has an issue record
C9_RejectedNeedsFixWithIssueRecord ==
    [][RejectedThenEvaluated /\ IssueRows(last_call'.key) # {}
       => RejectedResult]_vars

\* a finding with an issue record was evaluated and its rejection reason
\* came back in the reason
C9_Witness ==
    /\ last_call.op = "is_issue_need_fix"
    /\ last_call.arg[1] = NULL
    /\ IssueRows(last_call.key) # {}
    /\ last_call.ret.need_fix
    /\ last_call.ret.reason = <<ReasonRejected, "style violations">>
    /\ last_call.ret.latest_mr \in LatestOf(last_call.key)

-----------------------------------------------------------------------------
(* C10: create_sonar_issue_record on a finding whose issue record has both *)
(* ticket fields set returns true and leaves the record as it is, whether  *)
(* the ticket keys passed are the stored ones or others.                   *)
C10_TicketFieldsNeverOverwritten ==
    [][Called("create_sonar_issue_record")
       /\ Ticketed(last_call'.key) # {}
       => /\ last_call'.ret.bool
          /\ sonar_issue' = sonar_issue]_vars

\* a call with another ticket key than the stored one has returned true
C10_Witness ==
    /\ last_call.op = "create_sonar_issue_record"
    /\ last_call.ret.bool
    /\ \E r \in Ticketed(last_call.key) :
        r.jira_task_key = "JIRA-1" /\ last_call.arg[1] = "JIRA-2"

-----------------------------------------------------------------------------
-----------------------------------------------------------------------------
(* C12: a create_mr_record call that returns false leaves every table as   *)
(* it was before the call; in particular the latest MR record of the       *)
(* finding is still flagged latest.                                        *)
C12_FailedCreateChangesNothing ==
    [][Called("create_mr_record") /\ ~last_call'.ret.bool
       => /\ store' = store
          /\ \A f \in Findings :
                f = last_call'.key => LatestOf(f)' = LatestOf(f)]_vars

\* a call has failed for a finding that has a latest record
C12_Witness ==
    /\ last_call.op = "create_mr_record"
    /\ ~last_call.ret.bool
    /\ Cardinality(MrOf(last_call.key)) = 2
    /\ Cardinality(LatestOf(last_call.key)) = 1

-----------------------------------------------------------------------------
(* C17: update_mr_record_status(url, s, r) returns true exactly when some  *)
(* MR record has that mr_url.  When it returns false no table changes.     *)
(* When it returns true only the records with that mr_url change, and only *)
(* in mr_status and, when a reason r is passed, in rejection_reason:       *)
(* is_latest is never changed and a call without r keeps the stored        *)
(* reason.  (An empty string passed as r is not taken to be a reason       *)
(* here: the formula leaves the stored reason free in that case.)          *)
C17_UpdateTouchesOnlyRowsOfUrl ==
    [][Called("update_mr_record_status") =>
        LET url == last_call'.key
            s   == last_call'.arg[1]
            r   == last_call'.arg[2]
        IN  /\ last_call'.ret.bool = (\E m \in mr_records : m.mr_url = url)
            /\ ~last_call'.ret.bool => store' = store
            /\ <<sonar_issue, mr_seq, created_projects, project_seq>>'
                    = <<sonar_issue, mr_seq, created_projects, project_seq>>
            /\ Cardinality(mr_records') = Cardinality(mr_records)
            /\ \A m \in mr_records :
                    IF m.mr_url # url THEN m \in mr_records'
                    ELSE \E q \in mr_records' :
                            /\ q.id = m.id
                            /\ q.sonar_issue_key = m.sonar_issue_key
                            /\ q.mr_url = m.mr_url
                            /\ q.submitted_time = m.submitted_time
                            /\ q.is_latest = m.is_latest
                            /\ q.mr_status = s
                            /\ r \in Reasons => q.rejection_reason = r
                            /\ r = NULL => q.rejection_reason = m.rejection_reason]_vars

\* a record that is not the latest one of its finding was rejected with a
\* reason and then closed by a call without one: it keeps the reason, and
\* the record of the other url is as it was created
C17_Witness ==
    /\ last_call.op = "update_mr_record_status"
    /\ last_call.ret.bool
    /\ last_call.arg = <<"closed", NULL>>
    /\ \E m, q \in mr_records :
        /\ m.mr_url = last_call.key
        /\ m.mr_status = "closed"
        /\ m.rejection_reason = "style violations"
        /\ ~m.is_latest
        /\ q.mr_url # last_call.key
        /\ q.sonar_issue_key = m.sonar_issue_key
        /\ q.is_latest
        /\ q.mr_status = "created"

-----------------------------------------------------------------------------
(* C13: when threads call create_mr_record for the same finding            *)
(* concurrently, then in every interleaving of their statements a finding  *)
(* that has MR records has exactly one flagged latest, and every call that *)
(* returns true has stored exactly one record (the number of rows grows by *)
(* one with each call that comes to return true, and never otherwise).     *)
C13_ConcurrentCreatesKeepOneLatest ==
    [][/\ \A f \in Findings :
            MrOf(f)' # {} => Cardinality(LatestOf(f)') = 1
       /\ Cardinality(mr_records') =
            Cardinality(mr_records)
            + Cardinality({t \in Threads :
                            /\ pc[t].at # "returning"
                            /\ pc'[t].at = "returning"
                            /\ pc'[t].op = "create_mr_record"
                            /\ pc'[t].ret})]_vars

\* both threads are inside create_mr_record at once (each through its own
\* ProjectStatusDB), both about to return true, and of the three records
\* of the finding one is latest
C13_Witness ==
    /\ \A t \in Threads :
        /\ pc[t].at = "returning"
        /\ pc[t].op = "create_mr_record"
        /\ pc[t].ret
    /\ Cardinality(MrOf("F1")) = 3
    /\ Cardinality(LatestOf("F1")) = 1

-----------------------------------------------------------------------------
(* C14: at no time are two threads of the process inside store operations  *)
(* at once, whichever service objects they call the store through.         *)
C14_OneOperationAtATime ==
    \A t1, t2 \in Threads :
        (InCriticalSection(t1) /\ InCriticalSection(t2)) => t1 = t2

-----------------------------------------------------------------------------
(* C15: after record_created_project(k, v), whatever was recorded for k    *)
(* before, is_project_created(k) returns v (last write wins);              *)
(* is_project_created changes no table, returns the mapping stored for the *)
(* key, and returns None for a key that has no mapping.                    *)
C15_LastProjectWriteWins ==
    [][/\ (Called("record_created_project") /\ last_call'.arg[1] # NULL)
            => is_project_created(DB', last_call'.key) = last_call'.arg[1]
       /\ Called("is_project_created")
            => /\ store' = store
               /\ last_call'.ret.str = is_project_created(DB, last_call'.key)
               /\ (\A r \in created_projects :
                        r.sonar_project_key # last_call'.key)
                    => last_call'.ret.str = NULL
               /\ (last_call.op = "record_created_project"
                   /\ last_call.key = last_call'.key
                   /\ last_call.arg[1] # NULL)
                    => last_call'.ret.str = last_call.arg[1]]_vars

\* test-project was recorded twice (its row is the second one inserted),
\* the second time as TEST2, and is_project_created has just returned
\* TEST2; the other project was never recorded
C15_Witness ==
    /\ last_call.op = "is_project_created"
    /\ last_call.key = "test-project"
    /\ last_call.ret.str = "TEST2"
    /\ created_projects = {[id |-> 2, sonar_project_key |-> "test-project",
                            jira_project_key |-> "TEST2", created_time |-> now]}
    /\ is_project_created(DB, "other-project") = NULL

-----------------------------------------------------------------------------
(* C16: after any sequence of record_created_project and                   *)
(* record_created_task calls there is at most one created_projects row per *)
(* sonar_project_key and at most one sonar_issue row per sonar_issue_key:  *)
(* recording a key again replaces its row, and the number of rows does not *)
(* grow.                                                                   *)
C16_OneRowPerKey ==
    /\ \A r, q \in created_projects :
            r.sonar_project_key = q.sonar_project_key => r = q
    /\ \A r, q \in sonar_issue :
            r.sonar_issue_key = q.sonar_issue_key => r = q
    /\ Cardinality(created_projects) <= Cardinality(ProjectKeys)
    /\ Cardinality(sonar_issue) <= Cardinality(Findings)

\* three project rows were inserted and one is left: the key was recorded
\* again twice; an issue was recorded and then recorded again under
\* another ticket key
C16_Witness ==
    /\ project_seq = 3
    /\ Cardinality(created_projects) = 1
    /\ last_call.op = "record_created_task"
    /\ last_call.arg = <<"JIRA-2", "PROJ">>
    /\ sonar_issue = {[sonar_issue_key |-> last_call.key, jira_task_key |-> "JIRA-2",
                       jira_project_key |-> "PROJ",
                       sonar_project_key |-> "sonar-project",
                       created_time      |-> now]}

-----------------------------------------------------------------------------
(* Vocabulary of the reconciliation properties.                            *)

\* the step is a sync_mr_status cycle of a service that has a client
Synced == Called("sync_mr_status") /\ last_call'.arg[1] # NULL

\* the records the cycle of this step gets from get_pending_mr_records
PendingMrs == get_pending_mr_records(DB, last_call'.arg[2])

\* what the code host answers in the cycle of this step
Answers == last_call'.arg[3]

-----------------------------------------------------------------------------
(* C18: if get_pending_mr_records returns no records, sync_mr_status       *)
(* returns success = true with total_mrs = updated_mrs = failed_mrs = 0,   *)
(* sends no query to the code host and writes nothing to the store.        *)
C18_NothingPendingNothingDone ==
    [][(Synced /\ PendingMrs = <<>>) =>
            /\ last_call'.ret.success
            /\ last_call'.ret.total_mrs = 0
            /\ last_call'.ret.updated_mrs = 0
            /\ last_call'.ret.failed_mrs = 0
            /\ last_call'.ret.queried = <<>>
            /\ last_call'.ret.staged = <<>>
            /\ UNCHANGED store]_vars

\* a cycle found nothing pending in a store whose merge requests had all
\* reached a terminal status, while the code host would have answered
C18_Witness ==
    /\ last_call.op = "sync_mr_status"
    /\ last_call.arg[1] = "answering"
    /\ DOMAIN last_call.arg[3] = MrUrls
    /\ mr_records # {}
    /\ \A r \in mr_records : r.mr_status \in TerminalMrStatuses
    /\ last_call.ret.success
    /\ last_call.ret.total_mrs = 0
    /\ last_call.ret.queried = <<>>

-----------------------------------------------------------------------------
(* C19: sync_mr_status maps the state the code host reports onto the       *)
(* stored status as opened -> created, merged -> merged, closed -> closed, *)
(* whatever the case of the letters; any other state and a missing state   *)
(* stage no update; and no cycle writes the status rejected.               *)

\* the updates the cycle of this step handed to batch_update_mr_status
Staged == Range(last_call'.ret.staged)

\* the mapping as the claim states it, on the states the code host reports
C19_Mapped(state) ==
    CASE state = "opened" -> "created"
      [] state \in {"merged", "Merged"} -> "merged"
      [] state = "closed" -> "closed"
      [] OTHER -> NULL

C19_StateMappedExactly ==
    [][Synced =>
            /\ \A u \in Staged :
                    /\ u.mr_url \in DOMAIN Answers
                    /\ u.mr_status = C19_Mapped(Answers[u.mr_url].state)
                    /\ u.mr_status \in {"created", "merged", "closed"}
            /\ \A i \in DOMAIN PendingMrs :
                    LET mr == PendingMrs[i]
                    IN  /\ last_call'.ret.success
                        /\ mr.mr_url \in DOMAIN Answers
                        /\ C19_Mapped(Answers[mr.mr_url].state) \notin {NULL, mr.mr_status}
                        => \E u \in Staged : u.mr_url = mr.mr_url
            /\ \A r \in mr_records' :
                    \/ r \in mr_records
                    \/ /\ r.mr_url \in DOMAIN Answers
                       /\ r.mr_status = C19_Mapped(Answers[r.mr_url].state)
                       /\ r.mr_status \in {"created", "merged", "closed"}]_vars

\* a cycle over two pending records: "Merged" was reported for the one,
\* which is now stored as merged, and "locked" for the other, which is
\* stored as it was
C19_Witness ==
    /\ last_call.op = "sync_mr_status"
    /\ last_call.ret.success
    /\ last_call.ret.total_mrs = 2
    /\ DOMAIN last_call.arg[3] = MrUrls
    /\ last_call.arg[3]["https://host/mr/1"].state = "Merged"
    /\ last_call.arg[3]["https://host/mr/2"].state = "locked"
    /\ last_call.ret.staged = <<[mr_url |-> "https://host/mr/1", mr_status |-> "merged",
                                 rejection_reason |-> NULL]>>
    /\ \E r \in mr_records : r.mr_url = "https://host/mr/1" /\ r.mr_status = "merged"
    /\ \E r \in mr_records : r.mr_url = "https://host/mr/2" /\ r.mr_status = "created"

-----------------------------------------------------------------------------
(* C20: sync_mr_status stages an update for a pending record only when the *)
(* status its reported state maps to differs from the stored mr_status:    *)
(* one update per such record and no other.  A cycle that follows a cycle  *)
(* and gets the same answers from the code host stages no update and       *)
(* leaves the store as it is.                                              *)

\* the positions of the pending records whose reported state maps to a
\* status other than the stored one
C20_Differing ==
    {i \in DOMAIN PendingMrs :
        /\ PendingMrs[i].mr_url \in DOMAIN Answers
        /\ _map_gitlab_state_to_our_status(StateOf(Answers[PendingMrs[i].mr_url]))
                \notin {NULL, PendingMrs[i].mr_status}}

C20_StagedOnlyOnDifferenceAndIdempotent ==
    [][Synced =>
            /\ last_call'.ret.success =>
                    /\ Len(last_call'.ret.staged) = Cardinality(C20_Differing)
                    /\ \A u \in Staged : \E i \in C20_Differing :
                            /\ u.mr_url = PendingMrs[i].mr_url
                            /\ u.mr_status # PendingMrs[i].mr_status
            /\ (last_call.op = "sync_mr_status" /\ last_call'.arg = last_call.arg) =>
                    /\ last_call'.ret.staged = <<>>
                    /\ last_call'.ret.updated_mrs = 0
                    /\ UNCHANGED store]_vars

\* a cycle staged nothing: the one record had been stored as merged by an
\* earlier cycle with the same answer for its URL, the other is pending
\* and is reported in the state that maps to its stored status
C20_Witness ==
    /\ last_call.op = "sync_mr_status"
    /\ last_call.ret.success
    /\ last_call.ret.total_mrs = 1
    /\ last_call.ret.staged = <<>>
    /\ DOMAIN last_call.arg[3] = MrUrls
    /\ last_call.arg[3]["https://host/mr/1"].state = "Merged"
    /\ last_call.arg[3]["https://host/mr/2"].state = "opened"
    /\ mr_seq = 2
    /\ \E r \in mr_records : r.mr_url = "https://host/mr/1" /\ r.mr_status = "merged"
    /\ \E r \in mr_records : r.mr_url = "https://host/mr/2" /\ r.mr_status = "created"

-----------------------------------------------------------------------------
(* C21: when the code host answers for only some of the pending merge      *)
(* requests, a successful cycle writes nothing to the records of a URL     *)
(* missing from the answer and counts each such pending record in          *)
(* failed_mrs, and the records that were answered are still updated.       *)

\* the positions of the pending records the answer has no entry for
C21_Unanswered == {i \in DOMAIN PendingMrs : PendingMrs[i].mr_url \notin DOMAIN Answers}

C21_PartialAnswerUpdatesTheAnswered ==
    [][(Synced /\ last_call'.ret.success) =>
            /\ last_call'.ret.failed_mrs = Cardinality(C21_Unanswered)
            /\ \A r \in mr_records : r.mr_url \notin DOMAIN Answers => r \in mr_records'
            /\ \A u \in Staged : u.mr_url \in DOMAIN Answers
            /\ \A i \in DOMAIN PendingMrs \ C21_Unanswered :
                    LET mr == PendingMrs[i]
                        new_status == C19_Mapped(Answers[mr.mr_url].state)
                    IN  new_status \notin {NULL, mr.mr_status} =>
                            \E r \in mr_records' :
                                r.id = mr.id /\ r.mr_status = new_status]_vars

\* a cycle over two pending records of which one was answered: the
\* answered one is now stored as merged, the other one is stored as it
\* was and is counted as failed
C21_Witness ==
    /\ last_call.op = "sync_mr_status"
    /\ last_call.ret.success
    /\ last_call.ret.total_mrs = 2
    /\ last_call.ret.failed_mrs = 1
    /\ last_call.ret.updated_mrs = 1
    /\ DOMAIN last_call.arg[3] = {"https://host/mr/1"}
    /\ \E r \in mr_records : r.mr_url = "https://host/mr/1" /\ r.mr_status = "merged"
    /\ \E r \in mr_records : r.mr_url = "https://host/mr/2" /\ r.mr_status = "created"

-----------------------------------------------------------------------------
(* C22: when the service has no client for the code host, or the batch     *)
(* query raises, sync_mr_status returns a result (it raises nothing) with  *)
(* success = false and updated_mrs = 0, and the cycle leaves the store     *)
(* unchanged.                                                              *)
C22_OutageFailsTheCycleOnly ==
    [][(/\ Called("sync_mr_status")
        /\ \/ last_call'.arg[1] = NULL
           \/ last_call'.arg[1] = "raising" /\ PendingMrs # <<>>) =>
            /\ {"success", "updated_mrs"} \subseteq DOMAIN last_call'.ret
            /\ ~last_call'.ret.success
            /\ last_call'.ret.updated_mrs = 0
            /\ UNCHANGED store]_vars

\* the batch query for a pending record has raised: the cycle has
\* returned a failure and the record is stored as it was
C22_Witness ==
    /\ last_call.op = "sync_mr_status"
    /\ last_call.arg[1] = "raising"
    /\ last_call.ret.queried = <<(<<"https://host/mr/1">>)>>
    /\ ~last_call.ret.success
    /\ last_call.ret.updated_mrs = 0
    /\ \E r \in mr_records : r.mr_url = "https://host/mr/1" /\ r.mr_status = "created"

-----------------------------------------------------------------------------
(* C23: in the result of a successful cycle total_mrs is the number of     *)
(* pending records, failed_mrs the number of them the answer has no entry  *)
(* for, and updated_mrs the number of records whose stored status the      *)
(* cycle changed.                                                          *)

\* the records whose stored status the cycle of this step changes
C23_Changed ==
    {r \in mr_records : \E q \in mr_records' : q.id = r.id /\ q.mr_status # r.mr_status}

C23_CountsOfTheCycle ==
    [][(Synced /\ last_call'.ret.success) =>
            /\ last_call'.ret.total_mrs = Len(PendingMrs)
            /\ last_call'.ret.failed_mrs = Cardinality(C21_Unanswered)
            /\ last_call'.ret.updated_mrs = Cardinality(C23_Changed)]_vars

-----------------------------------------------------------------------------
(* C24: a cycle examines only the records whose stored status is not       *)
(* terminal and which were submitted within the last days_back days: the   *)
(* batch query has one entry per such record and no other, and a record    *)
(* that is merged or closed, or older than days_back, is not modified by   *)
(* the cycle.                                                              *)

\* the records the cycle of this step has no business with
C24_Settled ==
    {r \in mr_records :
        \/ r.mr_status \in TerminalMrStatuses
        \/ r.submitted_time < now - last_call'.arg[2]}

C24_OnlyPendingRecordsExamined ==
    [][Synced =>
            /\ \A i \in DOMAIN last_call'.ret.queried :
                    Len(last_call'.ret.queried[i])
                        = Cardinality(mr_records \ C24_Settled)
            /\ \A r \in C24_Settled : r \in mr_records']_vars

-----------------------------------------------------------------------------
(* C25: a failed execution of a scheduled task (its result is a failure,   *)
(* or the executor raises) does not end the scheduling of the task: unless *)
(* the scheduler is stopped, the task is executed again.  (The model       *)
(* starts no execution of a task whose total_runs has reached MaxRuns.)    *)

\* an execution of the task is in progress
Executing(task) ==
    \E j \in DOMAIN loop_threads :
        loop_threads[j].task = task /\ loop_threads[j].at = "executing"

C25_FailedExecutionIsRetried ==
    \A i \in 1..MaxLoopThreads :
        (/\ i \in DOMAIN loop_threads
         /\ loop_threads[i].last \in {"failure", "raised"}
         /\ loop_threads[i].at # "executing")
        ~> (/\ i \in DOMAIN loop_threads
            /\ \/ stop_event
               \/ Executing(loop_threads[i].task)
               \/ task_stats[loop_threads[i].task].total_runs >= MaxRuns)

\* the scheduler was never stopped, the execution of mr_sync has failed
\* once and the loop has started the next execution
C25_Witness ==
    /\ running
    /\ ~stop_event
    /\ task_stats["mr_sync"] = [total_runs |-> 1, successful_runs |-> 0, failed_runs |-> 1]
    /\ \E i \in DOMAIN loop_threads :
            /\ loop_threads[i] = LoopThread("mr_sync", "executing", "failure")
            /\ Len(loop_threads) = Cardinality(enabled_tasks)

-----------------------------------------------------------------------------
(* C26: is_issue_need_fix raises nothing and fails open: when the          *)
(* placeholder write fails, a read of the store fails or an exception      *)
(* occurs during the evaluation, it returns a result with need_fix = true. *)

\* the call of this step is an evaluation of finding f for the rule during
\* which one of the given failures has happened: a read or a write fails
\* when the evaluation gets to it
C26_Failed(f, rule, faults) ==
    /\ Called("is_issue_need_fix")
    /\ last_call'.key = f
    /\ last_call'.arg = <<rule, faults>>
    /\ \/ "evaluation" \in faults
       \/ /\ ~(~Falsy(rule) /\ is_rule_excluded(Cfg, exclude_files, rule).ret)
          /\ \/ "is_task_created" \in faults
             \/ "get_latest_mr_record" \in faults /\ is_task_created(DB, f)
             \/ "record_created_task" \in faults /\ ~is_task_created(DB, f)

C26_FailsOpen ==
    [][\A f \in Findings, rule \in Rules \cup {NULL}, faults \in FaultSets :
            C26_Failed(f, rule, faults) =>
                /\ "need_fix" \in DOMAIN last_call'.ret
                /\ last_call'.ret.need_fix]_vars

\* the finding has a ticket and a merged merge request, the read of the
\* merge request has failed, and the evaluation has answered need_fix
C26_Witness ==
    /\ last_call.op = "is_issue_need_fix"
    /\ last_call.arg = <<NULL, {"get_latest_mr_record"}>>
    /\ is_task_created(DB, last_call.key)
    /\ get_latest_mr_record(DB, last_call.key) # NoRecord
    /\ get_latest_mr_record(DB, last_call.key).mr_status = "merged"
    /\ last_call.ret.need_fix
    /\ last_call.ret.reason = <<ReasonNoMr>>

-----------------------------------------------------------------------------
(* C27: if loading the exclusion configuration fails, the exclusion set    *)
(* becomes empty, so is_rule_excluded returns false for every rule and no  *)
(* finding is skipped because of exclusion until a later load succeeds.    *)

\* the lookup of this step has loaded the configuration and the given
\* failure has happened in it: a file fails when the load gets to read it
C27_LoadFailed(fault) ==
    /\ Called("is_rule_excluded")
    /\ last_call'.arg[2] = fault
    /\ \/ fault = "load"
       \/ /\ current_time(exclude_files) > _excluded_rules_cache_time
          /\ \/ fault = "base" /\ exclude_files.base.exists
             \/ fault = "override" /\ exclude_files.override.exists

C27_FailedLoadExcludesNothing ==
    [][\A fault \in LoadFaults \ {"none"} :
            C27_LoadFailed(fault) =>
                /\ _excluded_rules' = {}
                /\ ~last_call'.ret.bool]_vars

-----------------------------------------------------------------------------
(* C28: after cleanup_old_records(days) no MR record remains whose owning  *)
(* issue record was deleted by that cleanup: MR records are removed no     *)
(* later than their parent issue record.                                   *)

C28_NoMrOutlivesItsIssue ==
    [][Called("cleanup_old_records") =>
        \A m \in mr_records' :
            ~\E r \in sonar_issue \ sonar_issue' :
                r.sonar_issue_key = m.sonar_issue_key]_vars

-----------------------------------------------------------------------------
(* C29: create_mr_record(f, ...) changes, besides inserting the new row,   *)
(* only the is_latest flag (and updated_time) of the previous latest       *)
(* record of f: the mr_status and rejection_reason of every existing       *)
(* record and every record of another finding are as before.  An earlier   *)
(* rejected MR stays stored as rejected, with is_latest = FALSE.           *)
C29_CreateTouchesOnlyTheLatestFlag ==
    [][Called("create_mr_record") /\ last_call'.ret.bool =>
        LET f == last_call'.key
            inserted == {q \in mr_records' : \A m \in mr_records : q.id # m.id}
        IN  /\ Cardinality(inserted) = 1
            /\ \A m \in mr_records :
                    IF m.sonar_issue_key = f
                    THEN [m EXCEPT !.is_latest = FALSE] \in mr_records'
                    ELSE m \in mr_records'
            /\ Cardinality(mr_records') = Cardinality(mr_records) + 1
            /\ <<sonar_issue, created_projects, project_seq>>'
                    = <<sonar_issue, created_projects, project_seq>>]_vars

\* a second MR has been recorded for a finding whose first MR was rejected
\* with a reason: the first is stored as rejected, with its reason, not
\* latest
C29_Witness ==
    /\ last_call.op = "create_mr_record"
    /\ last_call.ret.bool
    /\ \E m, q \in mr_records :
        /\ m.sonar_issue_key = last_call.key
        /\ q.sonar_issue_key = last_call.key
        /\ m.id < q.id
        /\ m.mr_status = "rejected"
        /\ m.rejection_reason # NULL
        /\ ~m.is_latest
        /\ q.is_latest

-----------------------------------------------------------------------------
(* C30: a staged reconciliation update carries a rejection_reason if and   *)
(* only if the new status is closed and the code host reported a           *)
(* merge_status other than can_be_merged; in every other case the update's *)
(* rejection_reason is null.  (The merge_status is compared as the state   *)
(* is, without regard to case; an absent merge_status is none reported.)  *)
C30_ReasonOnlyForClosedUnmergeable ==
    [][Synced =>
        \A u \in Staged :
            LET merge_status == Answers[u.mr_url].merge_status
                reported == /\ merge_status # NULL
                            /\ merge_status \notin {"can_be_merged", "Can_Be_Merged"}
            IN  /\ u.rejection_reason # NULL <=> (u.mr_status = "closed" /\ reported)
                /\ u.rejection_reason # NULL =>
                        u.rejection_reason = ClosedReason(merge_status)]_vars

\* one cycle has staged a closing update with a reason, for a merge request
\* reported closed and unmergeable, and a reopening update without one, for
\* a rejected merge request reported opened and unmergeable
C30_Witness ==
    /\ last_call.op = "sync_mr_status"
    /\ \E u, v \in Range(last_call.ret.staged) :
        /\ u.mr_status = "closed"
        /\ u.rejection_reason = ClosedReason("cannot_be_merged")
        /\ last_call.arg[3][u.mr_url].merge_status = "cannot_be_merged"
        /\ v.mr_status = "created"
        /\ v.rejection_reason = NULL
        /\ last_call.arg[3][v.mr_url] =
                [state |-> "opened", merge_status |-> "cannot_be_merged"]
    /\ \E m \in mr_records :
        /\ m.mr_status = "closed"
        /\ m.rejection_reason = ClosedReason("cannot_be_merged")

-----------------------------------------------------------------------------
(* C31: every is_rule_excluded call re-checks the exclusion sources, so    *)
(* its answer reflects the current content of the base and override files: *)
(* after the files are changed, replaced or removed, the next call uses    *)
(* the exclusion set derived from the files as they are at that moment.    *)

\* the exclusion set the two files give as they are
C31_Derived ==
    apply_override(
        IF exclude_files.base.exists THEN exclude_files.base.rules ELSE {},
        IF exclude_files.override.exists THEN exclude_files.override.lines ELSE <<>>)

C31_AnswerReflectsTheFiles ==
    [][Called("is_rule_excluded") =>
            /\ _excluded_rules' = C31_Derived
            /\ last_call'.ret.bool = (last_call'.arg[1] \in C31_Derived)]_vars

-----------------------------------------------------------------------------
(* C32: reconciliation never clears a rejection: if the latest MR of a     *)
(* finding has stored status rejected, then after a sync_mr_status cycle   *)
(* it still has status rejected (and is_issue_need_fix still returns       *)
(* need_fix = true), until a new MR record is created for the finding or   *)
(* update_mr_record_status is called explicitly.                           *)
C32_SyncKeepsRejection ==
    [][Called("sync_mr_status") =>
        \A m \in mr_records :
            (m.is_latest /\ m.mr_status = "rejected") =>
                /\ \E q \in mr_records' :
                        q.id = m.id /\ q.is_latest /\ q.mr_status = "rejected"
                /\ is_issue_need_fix(DB, Cfg, exclude_files, m.sonar_issue_key, NULL)
                        .ret.need_fix
                    => is_issue_need_fix(DB', Cfg', exclude_files', m.sonar_issue_key, NULL)
                        .ret.need_fix]_vars

-----------------------------------------------------------------------------
(* C33: the check-then-write steps of is_issue_need_fix (placeholder       *)
(* creation) and create_sonar_issue_record are safe under interleaving:    *)
(* when they run concurrently on the same finding from different threads,  *)
(* a populated issue record is never replaced by a placeholder with null   *)
(* ticket fields, and ticket fields written by one call are never          *)
(* overwritten by another.                                                 *)
C33_TicketFieldsAreNeverOverwritten ==
    [][\A r \in sonar_issue :
            (r.jira_task_key # NULL /\ r.jira_project_key # NULL) =>
                \E q \in sonar_issue' :
                    /\ q.sonar_issue_key = r.sonar_issue_key
                    /\ q.jira_task_key = r.jira_task_key
                    /\ q.jira_project_key = r.jira_project_key]_vars

-----------------------------------------------------------------------------
(* C34: the remediation pipeline never creates a branch or merge request   *)
(* for a finding whose rule is in the exclusion set: in                    *)
(* AICodeFixer._process_project_issues such a finding is always skipped.   *)
C34_ExcludedFindingIsSkipped ==
    [][\A f \in Findings :
            (/\ Called("_process_project_issues")
             /\ last_call'.key = f
             /\ is_rule_excluded(Cfg, exclude_files, RuleOf[f]).ret) =>
                /\ last_call'.arg = <<"skipped">>
                /\ gitlab_mrs'[f] = gitlab_mrs[f]]_vars

-----------------------------------------------------------------------------
(* C35: across any sequence of start() and stop() calls at most one        *)
(* scheduling loop per task name is active at a time: start() on a running *)
(* scheduler returns false without starting threads, and a start() after   *)
(* stop() never leaves a loop from the earlier start still scheduling the  *)
(* same task.                                                              *)

\* thread i is in stop_event.wait(sleep_seconds), waiting for the next cron
\* time of its task
Scheduling(i) == loop_threads[i].at = "waiting"

C35_OneLoopPerTask ==
    \A i, j \in DOMAIN loop_threads :
        (i # j /\ loop_threads[i].task = loop_threads[j].task) =>
            ~(Scheduling(i) /\ Scheduling(j))

-----------------------------------------------------------------------------
-----------------------------------------------------------------------------
(* C37: for each task, whenever no execution of that task is in progress,  *)
(* total_runs = successful_runs + failed_runs, and every completed         *)
(* execution incremented exactly one of successful_runs and failed_runs,   *)
(* including executions started through run_once while the scheduling      *)
(* thread is running.                                                      *)
C37_RunsAddUp ==
    \A task \in Tasks :
        (\A t \in Threads : ~(pc[t].at = "executor" /\ pc[t].task = task)) =>
            task_stats[task].total_runs
                = task_stats[task].successful_runs + task_stats[task].failed_runs

-----------------------------------------------------------------------------
(* C38: cleanup_old_records preserves the latest-flag invariant: every     *)
(* finding that still has MR records after a cleanup has exactly one of    *)
(* them flagged is_latest, and a cleanup never removes a finding's latest  *)
(* record while keeping its older ones.                                    *)
C38_CleanupKeepsOneLatest ==
    [][Called("cleanup_old_records") =>
        \A f \in Findings :
            /\ MrOf(f)' # {} => Cardinality(LatestOf(f)') = 1
            /\ (\E r \in LatestOf(f) : r \notin mr_records') => MrOf(f)' = {}]_vars

\* a cleanup has removed the older record of F1 and kept its latest
C38_Witness ==
    /\ last_call.op = "cleanup_old_records"
    /\ \E r \in MrOf("F1") : r.id = 2 /\ r.is_latest
    /\ ~\E r \in MrOf("F1") : r.id = 1

====
